---- MODULE Spec2Model ----
(***************************************************************************)
(* Model of LinkManager.process_links / LinkManager._process_batch         *)
(* (src/src/models/link.py): the manifest-driven batch pipeline            *)
(* Download -> Extract -> Copy -> (GOD convert) -> manifest write.         *)
(*                                                                         *)
(* A manifest entry is a record; its url is a small integer (urls are      *)
(* unique in the manifests considered) and its name equals its url.  Sizes *)
(* are kept in MB: size_bytes is a whole number of MiB, so that            *)
(* size_bytes / (1024 * 1024) of the code is the integer size_mb.          *)
(* Nullable string fields (output_path, god_output_path,                   *)
(* god_conversion_error) are kept as "set / not set" booleans.             *)
(***************************************************************************)
EXTENDS Integers, Sequences, FiniteSets, TLC

VARIABLES
    manifest_file,          \* contents of the links file on disk (sequence of entries)
    links_data,             \* process_links: the list loaded from the file, then filtered
    cfg,                    \* arguments of process_links
    pc,                     \* position of the run
    isos_to_convert,        \* process_links: existing ISOs marked by the sweep
    remaining_links,        \* By Size: urls still to place, largest first
    total_size_mb,          \* By Size: size limit of the run
    total_to_process,       \* By Number: count limit of the run
    processed_count,        \* process_links: running total
    current_batch_links,    \* By Size: the batch being filled
    current_batch_size_mb,  \* By Size: its size
    slice_i,                \* By Number: loop variable i
    batch,                  \* _process_batch: its batch argument (urls)
    idx,                    \* _process_batch: position of the for loop (1-based)
    ret,                    \* call site _process_batch returns to
    output_isos,            \* urls whose ISO file is present in output_dir
    converter_ok,           \* an iso2god executable can be found
    handed,                 \* history: the batches passed to _process_batch, in order
    attempted,              \* history: urls whose download was started in this run
    succeeded,              \* history: urls whose download, extract and copy all succeeded
    converted,              \* history: urls whose ISO was passed to the converter
    raised,                 \* history: urls whose processing raised inside _process_batch
    events,                 \* history: status events put on progress_queue, as <<kind, url>>
    prev_written,           \* history: url of the entry handled last if its manifest write completed, else 0
    unsaved,                \* history: urls mutated in memory and not written since
    file0,                  \* history: the manifest file when the run started
    run,                    \* 1: first run, 2: run restarted after an interruption
    resume_k,               \* history: entry whose write preceded the interruption
    resume_next,            \* history: entry that was about to begin at the interruption
    conv_pc,                \* ISO2GODConverter: position in __init__ / convert_iso_to_god
    process,                \* the iso2god subprocess: state, pipes, return code
    since_activity,         \* time.time() - last_activity, in seconds
    silent,                 \* history: seconds since the subprocess started or last wrote a line
    conv_result,            \* what convert_iso_to_god returned
    conv_status,            \* history: kinds of status events put by the converter
    iso2god_found,          \* _find_iso2god finds an executable
    iso_exists,             \* os.path.exists(iso_path)
    god_files,              \* a file ending in .000 is in output_dir
    produced,               \* history: the subprocess wrote a .000 file
    backup_file,            \* contents of the links file's .bak copy
    lib_pc,                 \* position of the manifest operation in progress
    lib_op,                 \* the manifest operation in progress or done last, with its inputs
    lib_data,               \* the operation's lists in memory
    lib_before,             \* history: the manifest file when the operation started
    lib_report,             \* history: what the operation reported
    lib_count,              \* history: operations started
    temp_files,             \* urls whose downloaded archive is in temp_dir
    extract_dirs,           \* urls whose extraction directory is in temp_extract_dir
    cleanup_failed,         \* history: urls whose "Cleanup" raised
    processing,             \* DownloaderApp.processing
    workers,                \* the background threads that are running, in order of start:
                            \* kind, position, ISO files left to convert
    gui_pc,                 \* position of the GUI thread inside a handler that rewrites the links file
    gui_data,               \* links_data of that handler
    converter_attr,         \* hasattr(self, 'converter')
    stop_result             \* history: how the last call of _stop_conversion ended

packVars == <<remaining_links, total_size_mb, total_to_process, processed_count,
              current_batch_links, current_batch_size_mb, slice_i>>
callVars == <<batch, idx, ret, handed>>
resumeVars == <<file0, run, resume_k, resume_next>>

convVars == <<conv_pc, process, since_activity, silent, conv_result, conv_status,
              iso2god_found, iso_exists, god_files, produced>>
libVars == <<backup_file, lib_pc, lib_op, lib_data, lib_before, lib_report, lib_count>>
guiVars == <<processing, workers, gui_pc, gui_data, converter_attr, stop_result>>
toolVars == <<convVars, libVars, guiVars>>
tempVars == <<temp_files, extract_dirs, cleanup_failed>>

\* everything of the pipeline but the manifest file
runVars == <<links_data, cfg, pc, isos_to_convert, packVars, callVars,
             output_isos, converter_ok, attempted, succeeded, converted, raised,
             events, prev_written, unsaved, resumeVars, tempVars>>

vars == <<manifest_file, runVars, toolVars>>

NoFile == <<[absent |-> TRUE]>>
\* a file whose contents json.load rejects
InvalidJson == <<[invalid |-> TRUE]>>
NoProcess == [state |-> "none", stdout |-> 0, stdout_eof |-> FALSE,
              stderr |-> 0, stderr_eof |-> FALSE, returncode |-> 0]

\* no converter exists
ConverterIdle ==
    /\ conv_pc = "idle"
    /\ process = NoProcess
    /\ since_activity = 0
    /\ silent = 0
    /\ conv_result = "none"
    /\ conv_status = {}
    /\ iso2god_found = TRUE
    /\ iso_exists = FALSE
    /\ god_files = FALSE
    /\ produced = FALSE

\* the application after __init__: no worker thread, no handler in progress
GuiIdle ==
    /\ processing = FALSE
    /\ workers = <<>>
    /\ gui_pc = "idle"
    /\ gui_data = <<>>
    /\ converter_attr = FALSE
    /\ stop_result = "none"

\* temp_dir and temp_extract_dir are empty
NoTempFiles ==
    /\ temp_files = {}
    /\ extract_dirs = {}
    /\ cleanup_failed = {}

\* no manifest operation has been started
LibraryIdle ==
    /\ backup_file = NoFile
    /\ lib_pc = "idle"
    /\ lib_op = [name |-> "none"]
    /\ lib_data = <<>>
    /\ lib_before = <<>>
    /\ lib_report = [name |-> "none"]
    /\ lib_count = 0

---------------------------------------------------------------------------
(* Bounds of the model *)

MaxLinks == 2          \* entries of a manifest of the pipeline specification
MaxResumeLinks == 3    \* entries of a manifest of the restart specification
MaxPackLinks == 4      \* entries of a manifest of the By Size planning specification
MaxCountLinks == 101   \* entries of a manifest of the By Number planning specification
MaxBatchLinks == 2     \* entries of a manifest of the batch specification
MaxPackLiveLinks == 3  \* entries of a manifest of the By Size termination specification
MaxSweepLinks == 2     \* entries of a manifest of the sweep specification

(* Program constants *)

BinCapacityMB == 10240 \* "Use 10GB as batch size"
SliceLen == 50         \* "Process in batches of 50"

LinkTypes == {"ISO", "XBLA"}
FilterTypes == {"All", "Incomplete", "Enabled"}
BatchModes == {"By Number", "By Size (MB)"}

---------------------------------------------------------------------------
(* Manifest entries *)

\* An entry as process_urls_file creates it, with the four completion flags
\* either all clear (pending) or all set (complete).
NewLink(u, t, en, sz, done) ==
    [url |-> u, name |-> u, link_type |-> t, enabled |-> en, size_mb |-> sz,
     downloaded |-> done, extracted |-> done, copied |-> done, processed |-> done,
     output_path |-> done,
     god_converted |-> FALSE, god_conversion_started |-> FALSE,
     god_conversion_completed |-> FALSE, god_conversion_error |-> FALSE,
     god_output_path |-> FALSE]

Urls(data) == {data[i].url : i \in 1..Len(data)}

\* The dict object with this url (lists share the dict objects of links_data).
LinkOf(data, u) == data[CHOOSE i \in 1..Len(data) : data[i].url = u]

SetLink(data, u, l) ==
    [i \in 1..Len(data) |-> IF data[i].url = u THEN l ELSE data[i]]

IsComplete(link) == link.downloaded /\ link.extracted /\ link.copied

NotComplete(link) == ~IsComplete(link)

IsEnabled(link) == link.enabled

\* process_links, "Filter links based on type"
FilterLinks(data, filter_type) ==
    CASE filter_type = "Incomplete" -> SelectSeq(data, NotComplete)
      [] filter_type = "Enabled" -> SelectSeq(data, IsEnabled)
      [] OTHER -> data

---------------------------------------------------------------------------
(* By Size batching: the packing loop of process_links *)

SizeMB(data, u) == LinkOf(data, u).size_mb

RECURSIVE InsertBySize(_, _, _)
\* place u behind every url that is at least as large (sorted() is stable)
InsertBySize(data, u, s) ==
    IF s = <<>> THEN <<u>>
    ELSE IF SizeMB(data, Head(s)) >= SizeMB(data, u)
         THEN <<Head(s)>> \o InsertBySize(data, u, Tail(s))
         ELSE <<u>> \o s

RECURSIVE SortedFrom(_, _, _)
SortedFrom(data, i, acc) ==
    IF i > Len(data) THEN acc
    ELSE SortedFrom(data, i + 1, InsertBySize(data, data[i].url, acc))

\* sorted(links_with_size, key=lambda x: x[1], reverse=True)
SortBySize(data) == SortedFrom(data, 1, <<>>)

RECURSIVE SumSizes(_, _)
SumSizes(data, s) ==
    IF s = <<>> THEN 0 ELSE SizeMB(data, Head(s)) + SumSizes(data, Tail(s))

Min2(a, b) == IF a <= b THEN a ELSE b

\* total_size_mb = min(sum of the sizes, batch_size)
TotalSizeMB(data, batch_size) == Min2(SumSizes(data, SortBySize(data)), batch_size)

MinSize(data, s) ==
    CHOOSE m \in {SizeMB(data, s[i]) : i \in 1..Len(s)} :
        \A j \in 1..Len(s) : m <= SizeMB(data, s[j])

\* (variant: the capacity of the current batch is not tested)
FitCandidatesAnyBatchSize(data, rem, pcount, cbs, total) ==
    {i \in 1..Len(rem) :
        /\ ~(pcount + SizeMB(data, rem[i]) > total)
        /\ SizeMB(data, rem[i]) > 0}

\* (variant: the total size limit is not tested)
FitCandidatesAnyTotal(data, rem, pcount, cbs, total) ==
    {i \in 1..Len(rem) :
        /\ cbs + SizeMB(data, rem[i]) <= BinCapacityMB
        /\ SizeMB(data, rem[i]) > 0}

\* The for loop "Look through remaining links to find best fit": the index kept
\* in best_fit_index, 0 when best_fit stays None.  A link is a candidate when it
\* keeps the run under the total limit and fits the current batch; it replaces
\* the best so far only when strictly larger than best_fit_size (initially 0).
FitCandidates(data, rem, pcount, cbs, total) ==
    {i \in 1..Len(rem) :
        /\ ~(pcount + SizeMB(data, rem[i]) > total)
        /\ cbs + SizeMB(data, rem[i]) <= BinCapacityMB
        /\ SizeMB(data, rem[i]) > 0}

BestFitIndex(data, rem, pcount, cbs, total) ==
    LET c == FitCandidates(data, rem, pcount, cbs, total)
    IN  IF c = {} THEN 0
        ELSE CHOOSE i \in c :
                \A j \in c : \/ SizeMB(data, rem[i]) > SizeMB(data, rem[j])
                             \/ (SizeMB(data, rem[i]) = SizeMB(data, rem[j]) /\ i <= j)

RemoveAt(s, i) == SubSeq(s, 1, i - 1) \o SubSeq(s, i + 1, Len(s))

\* "If current batch is full or this is last item, process batch"
BatchIsClosed(data, rem, pcount, cbs, total) ==
    \/ 10 * cbs >= 9 * BinCapacityMB
    \/ rem = <<>>
    \/ (rem # <<>> /\ cbs + MinSize(data, rem) > BinCapacityMB)
    \/ pcount >= total

RECURSIVE ForceNext(_, _, _, _)
\* "Find largest remaining link that fits within total size limit": pops the
\* head of remaining_links until one fits; link = 0 when none does.
\* (variant: an entry over the total limit stays at the head of the list)
ForceNextKeepsTooLarge(data, rem, pcount, total) ==
    IF rem = <<>> THEN [rem |-> <<>>, link |-> 0]
    ELSE IF pcount + SizeMB(data, Head(rem)) <= total
         THEN [rem |-> Tail(rem), link |-> Head(rem)]
         ELSE [rem |-> rem, link |-> 0]

ForceNext(data, rem, pcount, total) ==
    IF rem = <<>> THEN [rem |-> <<>>, link |-> 0]
    ELSE IF pcount + SizeMB(data, Head(rem)) <= total
         THEN [rem |-> Tail(rem), link |-> Head(rem)]
         ELSE ForceNext(data, Tail(rem), pcount, total)

---------------------------------------------------------------------------
(* Initial states: a manifest on disk and the arguments of one run *)

\* Size of the entry with url u in the manifests of the pipeline specification.
MainSizeMB(u) == CASE u = 1 -> 5000 [] u = 2 -> 4000 [] OTHER -> 3000

Manifests ==
    UNION {{[i \in 1..n |-> NewLink(i, t[i], e[i], MainSizeMB(i), d[i])] :
                t \in [1..n -> LinkTypes], e \in [1..n -> BOOLEAN], d \in [1..n -> BOOLEAN]} :
           n \in 1..MaxLinks}

\* batch_size: a count for By Number, a number of MB for By Size
BatchSizes(mode) == IF mode = "By Number" THEN 1..MaxLinks ELSE {8000, 20000}

Configs ==
    {c \in [filter_type : FilterTypes, batch_mode : BatchModes,
            batch_size : (1..MaxLinks) \cup {8000, 20000},
            convert_god : BOOLEAN, delete_iso : BOOLEAN] :
        /\ c.batch_size \in BatchSizes(c.batch_mode)
        /\ c.delete_iso => c.convert_god}

IsoUrls(data) == {data[i].url : i \in {j \in 1..Len(data) : data[j].link_type = "ISO"}}

InitRun ==
    /\ links_data = <<>>
    /\ pc = "load"
    /\ isos_to_convert = <<>>
    /\ remaining_links = <<>>
    /\ total_size_mb = 0
    /\ total_to_process = 0
    /\ processed_count = 0
    /\ current_batch_links = <<>>
    /\ current_batch_size_mb = 0
    /\ slice_i = 0
    /\ batch = <<>>
    /\ idx = 1
    /\ ret = "none"
    /\ handed = <<>>
    /\ attempted = {}
    /\ succeeded = {}
    /\ converted = {}
    /\ raised = {}
    /\ events = {}
    /\ prev_written = 0
    /\ unsaved = {}
    /\ run = 1
    /\ resume_k = 0
    /\ resume_next = 0
    /\ NoTempFiles
    /\ ConverterIdle
    /\ LibraryIdle
    /\ GuiIdle

Init ==
    /\ manifest_file \in Manifests
    /\ cfg \in Configs
    /\ output_isos \in (IF cfg.convert_god THEN SUBSET IsoUrls(manifest_file) ELSE {{}})
    /\ converter_ok \in (IF cfg.convert_god THEN BOOLEAN ELSE {TRUE})
    /\ file0 = manifest_file
    /\ InitRun

\* Initial states of the restart specification: up to MaxResumeLinks enabled
\* entries of two sizes, pending or complete, no conversion.
ResumeManifests ==
    UNION {{[i \in 1..n |-> NewLink(i, "XBLA", TRUE, z[i], d[i])] :
                z \in [1..n -> {100, 9300}], d \in [1..n -> BOOLEAN]} :
           n \in 2..MaxResumeLinks}

ResumeConfigs ==
    {c \in [filter_type : {"All", "Incomplete"}, batch_mode : BatchModes,
            batch_size : (1..MaxResumeLinks) \cup {10400, 20000},
            convert_god : {FALSE}, delete_iso : {FALSE}] :
        c.batch_size \in (IF c.batch_mode = "By Number"
                          THEN 1..MaxResumeLinks ELSE {10400, 20000})}

InitResume ==
    /\ manifest_file \in ResumeManifests
    /\ cfg \in ResumeConfigs
    /\ output_isos = {}
    /\ converter_ok = TRUE
    /\ file0 = manifest_file
    /\ InitRun

\* Initial states of the planning specification: enabled, pending entries;
\* By Size over every list of up to MaxPackLinks sizes, By Number over
\* manifests of up to MaxCountLinks entries.
PackSizes == {0, 1000, 5000, 6000, 9000, 11000}

PackManifests ==
    UNION {{[i \in 1..n |-> NewLink(i, "XBLA", TRUE, z[i], FALSE)] :
                z \in [1..n -> PackSizes]} : n \in 1..MaxPackLinks}

\* every fourth entry is disabled, every third one complete
CountManifests ==
    {[i \in 1..n |-> NewLink(i, "XBLA", i % 4 # 0, 0, i % 3 = 0)] : n \in 1..MaxCountLinks}

PlanConfig(filter, mode, size) ==
    [filter_type |-> filter, batch_mode |-> mode, batch_size |-> size,
     convert_god |-> FALSE, delete_iso |-> FALSE]

InitPack ==
    /\ \/ /\ manifest_file \in PackManifests
          /\ cfg \in {PlanConfig("All", "By Size (MB)", z) : z \in {5000, 10000, 21000, 50000}}
       \/ /\ manifest_file \in CountManifests
          /\ cfg \in {PlanConfig(f, "By Number", z) :
                          f \in FilterTypes, z \in {1, 49, 50, 51, 100, 500}}
    /\ output_isos = {}
    /\ converter_ok = TRUE
    /\ file0 = manifest_file
    /\ InitRun

\* Initial states of the batch specification: up to MaxBatchLinks pending
\* entries of either type, enabled or not, handed to _process_batch as one
\* By Number slice; no ISO is in the output folder when the run starts.
BatchManifests ==
    UNION {{[i \in 1..n |-> NewLink(i, t[i], e[i], MainSizeMB(i), FALSE)] :
                t \in [1..n -> LinkTypes], e \in [1..n -> BOOLEAN]} :
           n \in 1..MaxBatchLinks}

BatchConfigs ==
    {c \in [filter_type : {"All"}, batch_mode : {"By Number"}, batch_size : {SliceLen},
            convert_god : BOOLEAN, delete_iso : BOOLEAN] :
        c.delete_iso => c.convert_god}

InitBatch ==
    /\ manifest_file \in BatchManifests
    /\ cfg \in BatchConfigs
    /\ output_isos = {}
    /\ converter_ok \in (IF cfg.convert_god THEN BOOLEAN ELSE {TRUE})
    /\ file0 = manifest_file
    /\ InitRun

---------------------------------------------------------------------------
(* process_links *)

UrlSeq(data) == [i \in 1..Len(data) |-> data[i].url]

\* "Check if it needs conversion"
NeedsConversion(link) ==
    \/ ~link.god_converted
    \/ ~link.god_conversion_completed
    \/ link.god_conversion_error

SweepCandidate(link) ==
    /\ link.link_type = "ISO"
    /\ link.url \in output_isos
    /\ NeedsConversion(link)

\* the exception leaves process_links with no status event
RunRaisesSilently ==
    /\ pc' = "raised"
    /\ events' = events

\* where an exception that leaves process_links ends: "Error processing links", raise
RunRaises ==
    /\ pc' = "raised"
    /\ events' = events \cup {<<"error_run", 0>>}

\* open(links_file, 'r') and json.load succeed
Readable(file) == file # NoFile /\ file # InvalidJson

\* Load the manifest: open or json.load may raise; with convert_god, mark the
\* existing ISOs that need conversion and construct the converter when any
\* was marked.
Load ==
    /\ pc = "load"
    /\ IF Readable(manifest_file)
       THEN /\ links_data' = manifest_file
            /\ LET todo == IF cfg.convert_god
                           THEN UrlSeq(SelectSeq(manifest_file, SweepCandidate))
                           ELSE <<>>
               IN  /\ isos_to_convert' = todo
                   /\ IF todo = <<>>
                      THEN pc' = "filter" /\ events' = events
                      ELSE IF converter_ok
                           THEN /\ pc' = "sweep"
                                /\ events' = events \cup
                                       {<<"marked", todo[i]>> : i \in 1..Len(todo)}
                           ELSE RunRaises
       ELSE /\ RunRaises
            /\ UNCHANGED <<links_data, isos_to_convert>>
    /\ UNCHANGED <<manifest_file, cfg, packVars, callVars, output_isos, converter_ok,
                   attempted, succeeded, converted, raised, prev_written, unsaved,
                   resumeVars>>
    /\ UNCHANGED <<tempVars, toolVars>>

\* "Update link status" of the sweep, after convert_iso_to_god returned success
SweepUpdate(link, success) ==
    IF success
    THEN [link EXCEPT !.god_converted = TRUE, !.god_conversion_completed = TRUE,
                      !.god_output_path = TRUE, !.god_conversion_error = FALSE]
    ELSE [link EXCEPT !.god_conversion_error = TRUE, !.god_conversion_started = FALSE,
                      !.god_conversion_completed = FALSE]

\* "for link in links_data: if link.get('name') == game_name: ... break": the
\* position of the first entry with the name
FirstNamed(data, game_name) ==
    CHOOSE i \in 1..Len(data) :
        data[i].name = game_name /\ \A j \in 1..(i - 1) : data[j].name # game_name

\* (variant: the sweep is left behind its first conversion)
AfterSweepWriteLeaves(rest) == "filter"

\* where the run continues behind the write of one conversion of the sweep,
\* rest being the ISOs still to convert
AfterSweepWrite(rest) == IF rest = <<>> THEN "filter" ELSE "sweep"

\* (variant: the ISO is deleted whatever the conversion returned)
MayRemoveAlways(success, delete_iso) == delete_iso

\* os.remove(iso_path) is reached: only under "if success" (in the batch,
\* "if god_path") and "if delete_iso"
MayRemove(success, delete_iso) == success /\ delete_iso

\* One iteration of "for iso_path, god_output_dir, game_name in isos_to_convert":
\* convert, update the first entry named game_name, delete the ISO if
\* requested, write the manifest.
Sweep ==
    /\ pc = "sweep"
    /\ isos_to_convert # <<>>
    /\ LET u == Head(isos_to_convert)
           k == FirstNamed(links_data, LinkOf(links_data, u).name)
       IN  \E success \in BOOLEAN, removed \in BOOLEAN, written \in BOOLEAN :
             /\ removed => MayRemove(success, cfg.delete_iso)
             /\ converted' = converted \cup {u}
             /\ links_data' = [links_data EXCEPT ![k] = SweepUpdate(links_data[k], success)]
             /\ output_isos' = IF removed THEN output_isos \ {u} ELSE output_isos
             /\ isos_to_convert' = Tail(isos_to_convert)
             /\ IF written
                THEN /\ manifest_file' = links_data'
                     /\ unsaved' = unsaved
                     /\ events' = events
                     /\ pc' = AfterSweepWrite(Tail(isos_to_convert))
                ELSE /\ manifest_file' = manifest_file
                     /\ unsaved' = unsaved \cup {u}
                     /\ RunRaises
    /\ UNCHANGED <<cfg, packVars, callVars, converter_ok, attempted, succeeded, raised,
                   prev_written, resumeVars>>
    /\ UNCHANGED <<tempVars, toolVars>>

\* the call self._process_batch(b, ...), returning to call site r
Call(b, r) ==
    /\ batch' = b
    /\ idx' = 1
    /\ ret' = r
    /\ handed' = Append(handed, b)
    /\ pc' = "entry"

\* "Filter links based on type", then the set-up of the chosen batch mode
Filter ==
    /\ pc = "filter"
    /\ links_data' = FilterLinks(links_data, cfg.filter_type)
    /\ processed_count' = 0
    /\ current_batch_links' = <<>>
    /\ current_batch_size_mb' = 0
    /\ slice_i' = 0
    /\ IF Len(links_data') = 0
       THEN /\ pc' = "complete"
            /\ events' = events \cup {<<"no_links", 0>>}
            /\ UNCHANGED <<remaining_links, total_size_mb, total_to_process>>
       ELSE /\ events' = events
            /\ IF cfg.batch_mode = "By Size (MB)"
               THEN /\ remaining_links' = SortBySize(links_data')
                    /\ total_size_mb' = TotalSizeMB(links_data', cfg.batch_size)
                    /\ total_to_process' = total_to_process
                    /\ pc' = "pack"
               ELSE /\ total_to_process' = Min2(cfg.batch_size, Len(links_data'))
                    /\ UNCHANGED <<remaining_links, total_size_mb>>
                    /\ pc' = "slice"
    /\ UNCHANGED <<manifest_file, cfg, isos_to_convert, callVars, output_isos,
                   converter_ok, attempted, succeeded, converted, raised,
                   prev_written, unsaved, resumeVars>>
    /\ UNCHANGED <<tempVars, toolVars>>

\* "Processing complete!"
Complete ==
    /\ pc' = "complete"
    /\ events' = events \cup {<<"complete", 0>>}

\* One pass of "while remaining_links and processed_count < total_size_mb", up
\* to the point where it calls _process_batch or comes back to the loop test;
\* behind the loop, "Process any final batch".
PackLoop ==
    /\ pc = "pack"
    /\ IF remaining_links # <<>> /\ processed_count < total_size_mb
       THEN LET bi == BestFitIndex(links_data, remaining_links, processed_count,
                                   current_batch_size_mb, total_size_mb)
            IN  IF bi # 0
                THEN LET size == SizeMB(links_data, remaining_links[bi])
                         cbl  == Append(current_batch_links, remaining_links[bi])
                         rem  == RemoveAt(remaining_links, bi)
                     IN  /\ current_batch_links' = cbl
                         /\ current_batch_size_mb' = current_batch_size_mb + size
                         /\ processed_count' = processed_count + size
                         /\ remaining_links' = rem
                         /\ events' = events
                         /\ IF BatchIsClosed(links_data, rem, processed_count + size,
                                             current_batch_size_mb + size, total_size_mb)
                            THEN Call(cbl, "fit")
                            ELSE pc' = "pack" /\ UNCHANGED callVars
                ELSE IF current_batch_links # <<>>
                     THEN /\ Call(current_batch_links, "nofit")
                          /\ events' = events
                          /\ UNCHANGED <<remaining_links, processed_count,
                                         current_batch_links, current_batch_size_mb>>
                     ELSE LET f == ForceNext(links_data, remaining_links,
                                             processed_count, total_size_mb)
                          IN  /\ remaining_links' = f.rem
                              /\ events' = events
                              /\ IF f.link # 0
                                 THEN /\ current_batch_links' = <<f.link>>
                                      /\ current_batch_size_mb' = SizeMB(links_data, f.link)
                                      /\ processed_count' =
                                             processed_count + SizeMB(links_data, f.link)
                                 ELSE UNCHANGED <<current_batch_links,
                                                  current_batch_size_mb, processed_count>>
                              /\ pc' = "pack"
                              /\ UNCHANGED callVars
       ELSE /\ UNCHANGED <<remaining_links, processed_count, current_batch_links,
                           current_batch_size_mb>>
            /\ IF current_batch_links # <<>>
               THEN Call(current_batch_links, "final") /\ events' = events
               ELSE Complete /\ UNCHANGED callVars
    /\ UNCHANGED <<manifest_file, links_data, cfg, isos_to_convert, total_size_mb,
                   total_to_process, slice_i, output_isos, converter_ok, attempted,
                   succeeded, converted, raised, prev_written, unsaved, resumeVars>>
    /\ UNCHANGED <<tempVars, toolVars>>

\* (variant: the slice is gone through from its end)
SliceOfReversed(data, i, total) ==
    LET slice == SubSeq(UrlSeq(data), i + 1, Min2(i + SliceLen, total))
    IN  [k \in 1..Len(slice) |-> slice[Len(slice) + 1 - k]]

\* (variant: the slice is cut from links_data, not from links_to_process)
SliceOfAllLinks(data, i, total) ==
    SubSeq(UrlSeq(data), i + 1, Min2(i + SliceLen, Len(data)))

\* links_to_process[i:min(i + 50, total_to_process)], where links_to_process
\* is links_data[:total_to_process]
SliceOf(data, i, total) ==
    SubSeq(UrlSeq(data), i + 1, Min2(i + SliceLen, total))

\* "for i in range(0, total_to_process, 50)": the slice of links_to_process
\* handed to _process_batch
SliceLoop ==
    /\ pc = "slice"
    /\ IF slice_i < total_to_process
       THEN /\ Call(SliceOf(links_data, slice_i, total_to_process), "slice")
            /\ events' = events
       ELSE Complete /\ UNCHANGED callVars
    /\ UNCHANGED <<manifest_file, links_data, cfg, isos_to_convert, packVars,
                   output_isos, converter_ok, attempted, succeeded, converted, raised,
                   prev_written, unsaved, resumeVars>>
    /\ UNCHANGED <<tempVars, toolVars>>

\* _process_batch has gone through its batch: the statements behind the call
BatchReturn ==
    /\ pc = "entry"
    /\ idx > Len(batch)
    /\ CASE ret = "fit" ->
              /\ processed_count' = processed_count + Len(batch)
              /\ current_batch_links' = <<>>
              /\ current_batch_size_mb' = 0
              /\ pc' = "pack"
              /\ events' = events
              /\ UNCHANGED <<remaining_links, slice_i>>
         [] ret = "nofit" ->
              LET f == ForceNext(links_data, remaining_links,
                                 processed_count + Len(batch), total_size_mb)
              IN  /\ remaining_links' = f.rem
                  /\ IF f.link # 0
                     THEN /\ current_batch_links' = <<f.link>>
                          /\ current_batch_size_mb' = SizeMB(links_data, f.link)
                          /\ processed_count' = processed_count + Len(batch)
                                                    + SizeMB(links_data, f.link)
                     ELSE /\ processed_count' = processed_count + Len(batch)
                          /\ UNCHANGED <<current_batch_links, current_batch_size_mb>>
                  /\ pc' = "pack"
                  /\ events' = events
                  /\ slice_i' = slice_i
         [] ret = "final" ->
              /\ processed_count' = processed_count + Len(batch)
              /\ Complete
              /\ UNCHANGED <<remaining_links, current_batch_links,
                             current_batch_size_mb, slice_i>>
         [] OTHER ->
              /\ processed_count' = processed_count + Len(batch)
              /\ UNCHANGED <<remaining_links, current_batch_links, current_batch_size_mb>>
              /\ IF processed_count + Len(batch) >= total_to_process
                 THEN Complete /\ slice_i' = slice_i
                 ELSE /\ slice_i' = slice_i + SliceLen
                      /\ pc' = "slice"
                      /\ events' = events
    /\ UNCHANGED <<manifest_file, links_data, cfg, isos_to_convert, total_size_mb,
                   total_to_process, callVars, output_isos, converter_ok, attempted,
                   succeeded, converted, raised, prev_written, unsaved, resumeVars>>
    /\ UNCHANGED <<tempVars, toolVars>>

---------------------------------------------------------------------------
(* _process_batch: the body of "for link in batch", one action per stage *)

Cur == batch[idx]

CurLink == LinkOf(links_data, Cur)

\* the for loop moves on to the next link
NextLink ==
    /\ idx' = idx + 1
    /\ pc' = "entry"
    /\ UNCHANGED <<batch, ret, handed>>

\* (variant: the exception leaves _process_batch and ends the run)
HandlerPcAborts == "raised"

\* position the loop continues at after "except Exception as e": continue
HandlerPc == "entry"

\* "except Exception as e": the status event naming the link, then continue
Handler ==
    /\ events' = events \cup {<<"error", Cur>>}
    /\ raised' = raised \cup {Cur}
    /\ idx' = idx + 1
    /\ pc' = HandlerPc
    /\ UNCHANGED <<batch, ret, handed>>

\* "Skip disabled games", else "Download file".  The skip message is subject
\* to the rate limit of _should_update_status, so it may not be shown.
\* _download_file returns the path of the file it wrote, or None after an
\* error status; a file that fails validation is left in temp_dir.
EntryBegin ==
    /\ pc = "entry"
    /\ idx <= Len(batch)
    /\ IF ~CurLink.enabled
       THEN /\ \E shown \in BOOLEAN :
                 events' = IF shown THEN events \cup {<<"skip", Cur>>} ELSE events
            /\ NextLink
            /\ UNCHANGED <<attempted, prev_written, temp_files>>
       ELSE /\ attempted' = attempted \cup {Cur}
            /\ \E file_path \in BOOLEAN, left \in BOOLEAN :
                 IF file_path
                 THEN /\ left
                      /\ pc' = "extract"
                      /\ events' = events
                      /\ prev_written' = prev_written
                      /\ temp_files' = temp_files \cup {Cur}
                      /\ UNCHANGED callVars
                 ELSE /\ events' = events \cup {<<"download_failed", Cur>>}
                      /\ prev_written' = 0
                      /\ temp_files' = IF left THEN temp_files \cup {Cur} ELSE temp_files
                      /\ NextLink
    /\ UNCHANGED <<manifest_file, links_data, cfg, isos_to_convert, packVars,
                   output_isos, converter_ok, succeeded, converted, raised, unsaved,
                   resumeVars>>
    /\ UNCHANGED <<extract_dirs, cleanup_failed, toolVars>>

\* self._extract_file(file_path, extract_dir, progress_queue): it makes the
\* directory before it opens the archive, catches every exception and
\* returns None after an error status.
Extract ==
    /\ pc = "extract"
    /\ \E ok \in BOOLEAN, made \in BOOLEAN :
         /\ ok => made
         /\ extract_dirs' = IF made THEN extract_dirs \cup {Cur} ELSE extract_dirs
         /\ IF ok
            THEN pc' = "copy" /\ UNCHANGED <<events, prev_written>>
            ELSE /\ pc' = "cleanup"
                 /\ events' = events \cup {<<"extract_failed", Cur>>}
                 /\ prev_written' = 0
    /\ UNCHANGED <<manifest_file, links_data, cfg, isos_to_convert, packVars, callVars,
                   output_isos, converter_ok, attempted, succeeded, converted, raised,
                   unsaved, resumeVars>>
    /\ UNCHANGED <<temp_files, cleanup_failed, toolVars>>

\* (variant: the status update leaves out one of the flags)
MarkProcessedLeavesExtracted(link) ==
    [link EXCEPT !.downloaded = TRUE, !.copied = TRUE, !.processed = TRUE,
                 !.output_path = TRUE]

\* "Update link status"
MarkProcessed(link) ==
    [link EXCEPT !.downloaded = TRUE, !.extracted = TRUE, !.copied = TRUE,
                 !.processed = TRUE, !.output_path = TRUE]

\* (variant: each flag is set as its own stage succeeds)
AfterCopyStagewise(link, ok) ==
    [link EXCEPT !.downloaded = TRUE, !.extracted = TRUE,
                 !.copied = ok \/ link.copied, !.processed = ok \/ link.processed,
                 !.output_path = ok \/ link.output_path]

\* the link after self._copy_to_output returned ok: the flags are set only
\* inside "if self._copy_to_output(...)"
AfterCopy(link, ok) == IF ok THEN MarkProcessed(link) ELSE link

\* self._copy_to_output(extract_dir, output_dir, progress_queue) and, when it
\* returned True, the status update.  The archive of an ISO entry may or may
\* not contain an ISO file that matches the entry's name.
Copy ==
    /\ pc = "copy"
    /\ \E ok \in BOOLEAN, iso \in BOOLEAN :
         /\ iso => (ok /\ CurLink.link_type = "ISO")
         /\ IF ok
            THEN /\ links_data' = SetLink(links_data, Cur, AfterCopy(CurLink, TRUE))
                 /\ succeeded' = succeeded \cup {Cur}
                 /\ unsaved' = unsaved \cup {Cur}
                 /\ output_isos' = IF iso THEN output_isos \cup {Cur} ELSE output_isos
                 /\ pc' = IF cfg.convert_god /\ CurLink.link_type = "ISO"
                          THEN "convert" ELSE "save"
                 /\ UNCHANGED <<events, prev_written>>
            ELSE /\ pc' = "cleanup"
                 /\ events' = events \cup {<<"copy_failed", Cur>>}
                 /\ prev_written' = 0
                 /\ links_data' = SetLink(links_data, Cur, AfterCopy(CurLink, FALSE))
                 /\ UNCHANGED <<succeeded, unsaved, output_isos>>
    /\ UNCHANGED <<manifest_file, cfg, isos_to_convert, packVars, callVars,
                   converter_ok, attempted, converted, raised, resumeVars>>
    /\ UNCHANGED <<tempVars, toolVars>>

\* fields written when convert_iso_to_god returned a path
MarkConverted(link) ==
    [link EXCEPT !.god_converted = TRUE, !.god_output_path = TRUE]

\* "Handle GOD conversion if requested": find the ISO, construct the converter
\* (which raises when no executable is found), convert, delete the ISO if
\* requested.
Convert ==
    /\ pc = "convert"
    /\ IF Cur \notin output_isos
       THEN /\ events' = events \cup {<<"iso_missing", Cur>>}
            /\ pc' = "save"
            /\ UNCHANGED <<links_data, output_isos, converted, raised, callVars, prev_written>>
       ELSE IF ~converter_ok
            THEN /\ Handler
                 /\ prev_written' = 0
                 /\ UNCHANGED <<links_data, output_isos, converted>>
            ELSE /\ converted' = converted \cup {Cur}
                 /\ pc' = "save"
                 /\ \E god_path \in BOOLEAN, removed \in BOOLEAN :
                      /\ removed => MayRemove(god_path, cfg.delete_iso)
                      /\ links_data' = IF god_path
                                       THEN SetLink(links_data, Cur, MarkConverted(CurLink))
                                       ELSE links_data
                      /\ output_isos' = IF removed THEN output_isos \ {Cur} ELSE output_isos
                      /\ events' = IF god_path
                                   THEN events \cup {<<"god_converted", Cur>>}
                                   ELSE events \cup {<<"convert_failed", Cur>>}
                 /\ UNCHANGED <<raised, callVars, prev_written>>
    /\ UNCHANGED <<manifest_file, cfg, isos_to_convert, packVars, converter_ok,
                   attempted, succeeded, unsaved, resumeVars>>
    /\ UNCHANGED <<tempVars, toolVars>>

\* (variant: the write leaves the file as it was)
DumpedKeepsFile(data, file) == file

\* what the links file holds after json.dump(links_data, f) into it
Dumped(data, file) == data

\* "Save progress after each successful game": json.dump(links_data) into the
\* links file, then the success message; the write may raise.
Save ==
    /\ pc = "save"
    /\ \E written \in BOOLEAN :
         IF written
         THEN /\ manifest_file' = Dumped(links_data, manifest_file)
              /\ unsaved' = {}
              /\ events' = events \cup {<<"success", Cur>>}
              /\ prev_written' = Cur
              /\ pc' = "cleanup"
              /\ UNCHANGED <<raised, callVars>>
         ELSE /\ Handler
              /\ prev_written' = 0
              /\ UNCHANGED <<manifest_file, unsaved>>
    /\ UNCHANGED <<links_data, cfg, isos_to_convert, packVars, output_isos,
                   converter_ok, attempted, succeeded, converted, resumeVars>>
    /\ UNCHANGED <<tempVars, toolVars>>

\* "Cleanup": os.remove of the download, then shutil.rmtree of the extraction
\* directory; either may raise, and what was removed before stays removed
Cleanup ==
    /\ pc = "cleanup"
    /\ \E ok \in BOOLEAN, file_removed \in BOOLEAN :
         IF ok
         THEN /\ file_removed
              /\ temp_files' = temp_files \ {Cur}
              /\ extract_dirs' = extract_dirs \ {Cur}
              /\ cleanup_failed' = cleanup_failed
              /\ NextLink
              /\ UNCHANGED <<events, raised>>
         ELSE /\ file_removed => Cur \in extract_dirs
              /\ temp_files' = IF file_removed THEN temp_files \ {Cur} ELSE temp_files
              /\ extract_dirs' = extract_dirs
              /\ cleanup_failed' = cleanup_failed \cup {Cur}
              /\ Handler
    /\ UNCHANGED <<manifest_file, links_data, cfg, isos_to_convert, packVars,
                   output_isos, converter_ok, attempted, succeeded, converted,
                   prev_written, unsaved, resumeVars>>
    /\ UNCHANGED toolVars

---------------------------------------------------------------------------
(* Interruption and restart *)

\* The process is stopped right before the body of the loop begins for an
\* enabled link, the link handled before it having had its manifest write;
\* process_links is then started again on the file, with filter Incomplete.
Interrupt ==
    /\ pc = "entry"
    /\ idx <= Len(batch)
    /\ run = 1
    /\ prev_written # 0
    /\ CurLink.enabled
    /\ run' = 2
    /\ resume_k' = prev_written
    /\ resume_next' = Cur
    /\ cfg' = [cfg EXCEPT !.filter_type = "Incomplete"]
    /\ file0' = manifest_file
    /\ links_data' = <<>>
    /\ pc' = "load"
    /\ isos_to_convert' = <<>>
    /\ remaining_links' = <<>>
    /\ total_size_mb' = 0
    /\ total_to_process' = 0
    /\ processed_count' = 0
    /\ current_batch_links' = <<>>
    /\ current_batch_size_mb' = 0
    /\ slice_i' = 0
    /\ batch' = <<>>
    /\ idx' = 1
    /\ ret' = "none"
    /\ handed' = <<>>
    /\ attempted' = {}
    /\ succeeded' = {}
    /\ converted' = {}
    /\ raised' = {}
    /\ events' = {}
    /\ prev_written' = 0
    /\ unsaved' = {}
    /\ UNCHANGED <<manifest_file, output_isos, converter_ok>>
    /\ UNCHANGED <<tempVars, toolVars>>

---------------------------------------------------------------------------

Next ==
    \/ Load
    \/ Sweep
    \/ Filter
    \/ PackLoop
    \/ SliceLoop
    \/ BatchReturn
    \/ EntryBegin
    \/ Extract
    \/ Copy
    \/ Convert
    \/ Save
    \/ Cleanup
    \/ Interrupt

Spec == Init /\ [][Next]_vars

\* The run without GOD conversion, interrupted and restarted
NextResume ==
    \/ Load
    \/ Filter
    \/ PackLoop
    \/ SliceLoop
    \/ BatchReturn
    \/ EntryBegin
    \/ Extract
    \/ Copy
    \/ Save
    \/ Cleanup
    \/ Interrupt

SpecResume == InitResume /\ [][NextResume]_vars

\* _process_batch as the planning loops of process_links see it: the batch is
\* gone through; the loops read nothing that it writes.
ProcessBatch ==
    /\ pc = "entry"
    /\ idx <= Len(batch)
    /\ idx' = Len(batch) + 1
    /\ UNCHANGED <<manifest_file, links_data, cfg, pc, isos_to_convert, packVars,
                   batch, ret, handed, output_isos, converter_ok, attempted,
                   succeeded, converted, raised, events, prev_written, unsaved,
                   resumeVars>>
    /\ UNCHANGED <<tempVars, toolVars>>

\* The By Size planning loop alone, as the one thread of the run executes it:
\* the thread keeps taking steps until process_links returns.
PackLiveManifests ==
    UNION {{[i \in 1..n |-> NewLink(i, "XBLA", TRUE, z[i], FALSE)] :
                z \in [1..n -> PackSizes]} : n \in 1..MaxPackLiveLinks}

InitPackSize ==
    /\ manifest_file \in PackLiveManifests
    /\ cfg \in {PlanConfig("All", "By Size (MB)", z) : z \in {5000, 10000, 21000, 50000}}
    /\ output_isos = {}
    /\ converter_ok = TRUE
    /\ file0 = manifest_file
    /\ InitRun

NextPackSize ==
    \/ Load
    \/ Filter
    \/ PackLoop
    \/ ProcessBatch
    \/ BatchReturn

SpecPackLive == InitPackSize /\ [][NextPackSize]_vars /\ WF_vars(NextPackSize)

NextPack ==
    \/ Load
    \/ Filter
    \/ PackLoop
    \/ SliceLoop
    \/ ProcessBatch
    \/ BatchReturn

SpecPack == InitPack /\ [][NextPack]_vars

\* One run whose entries all go through _process_batch in a single slice
NextBatch ==
    \/ Load
    \/ Filter
    \/ SliceLoop
    \/ BatchReturn
    \/ EntryBegin
    \/ Extract
    \/ Copy
    \/ Convert
    \/ Save
    \/ Cleanup

SpecBatch == InitBatch /\ [][NextBatch]_vars

\* "with open(links_file, 'w', encoding='utf-8') as f": the file is opened
\* for writing, which empties it, or the open raises
SaveOpen ==
    /\ pc = "save"
    /\ \E opened \in BOOLEAN :
         IF opened
         THEN /\ manifest_file' = InvalidJson
              /\ pc' = "dump"
              /\ UNCHANGED <<events, raised, callVars, prev_written>>
         ELSE /\ Handler
              /\ prev_written' = 0
              /\ manifest_file' = manifest_file
    /\ UNCHANGED <<links_data, cfg, isos_to_convert, packVars, output_isos,
                   converter_ok, attempted, succeeded, converted, unsaved, resumeVars>>
    /\ UNCHANGED <<tempVars, toolVars>>

\* "json.dump(links_data, f, indent=4)", which writes the text piece by piece
\* and may raise before the last piece, then the success message
SaveDump ==
    /\ pc = "dump"
    /\ \E written \in BOOLEAN :
         IF written
         THEN /\ manifest_file' = Dumped(links_data, manifest_file)
              /\ unsaved' = {}
              /\ events' = events \cup {<<"success", Cur>>}
              /\ prev_written' = Cur
              /\ pc' = "cleanup"
              /\ UNCHANGED <<raised, callVars>>
         ELSE /\ Handler
              /\ prev_written' = 0
              /\ UNCHANGED <<manifest_file, unsaved>>
    /\ UNCHANGED <<links_data, cfg, isos_to_convert, packVars, output_isos,
                   converter_ok, attempted, succeeded, converted, resumeVars>>
    /\ UNCHANGED <<tempVars, toolVars>>

\* the process is killed (the worker is a daemon thread: it ends with the
\* application, wherever it is)
Crash ==
    /\ pc \notin {"complete", "raised", "crashed"}
    /\ pc' = "crashed"
    /\ UNCHANGED <<manifest_file, links_data, cfg, isos_to_convert, packVars, callVars,
                   output_isos, converter_ok, attempted, succeeded, converted, raised,
                   events, prev_written, unsaved, resumeVars>>
    /\ UNCHANGED <<tempVars, toolVars>>

\* One run with the manifest write in its two steps, killed at any point
NextCrash ==
    \/ Load
    \/ Filter
    \/ SliceLoop
    \/ BatchReturn
    \/ EntryBegin
    \/ Extract
    \/ Copy
    \/ Convert
    \/ SaveOpen
    \/ SaveDump
    \/ Cleanup
    \/ Crash

SpecCrash == InitBatch /\ [][NextCrash]_vars

\* Initial states of the sweep specification: up to MaxSweepLinks enabled,
\* pending entries of either type.  An entry that is not an ISO may carry the
\* name of an ISO entry (the name is made from the last part of the url);
\* any of the ISOs may be in the output folder already.
SweepNames(t, i) ==
    {i} \cup (IF t[i] = "ISO" THEN {} ELSE {j \in DOMAIN t : t[j] = "ISO"})

SweepManifests ==
    UNION {UNION {{[i \in 1..n |-> [NewLink(i, t[i], TRUE, MainSizeMB(i), FALSE)
                                          EXCEPT !.name = nm[i]]] :
                       nm \in {f \in [1..n -> 1..n] : \A i \in 1..n : f[i] \in SweepNames(t, i)}} :
                  t \in [1..n -> LinkTypes]} :
           n \in 1..MaxSweepLinks}

SweepConfigs ==
    {c \in [filter_type : {"All"}, batch_mode : {"By Number"}, batch_size : {SliceLen},
            convert_god : BOOLEAN, delete_iso : BOOLEAN] :
        c.delete_iso => c.convert_god}

InitSweep ==
    /\ manifest_file \in SweepManifests
    /\ cfg \in SweepConfigs
    /\ output_isos \in SUBSET IsoUrls(manifest_file)
    /\ converter_ok \in (IF cfg.convert_god THEN BOOLEAN ELSE {TRUE})
    /\ file0 = manifest_file
    /\ InitRun

\* One run with the sweep of the ISOs found in the output folder
NextSweep ==
    \/ Load
    \/ Sweep
    \/ Filter
    \/ SliceLoop
    \/ BatchReturn
    \/ EntryBegin
    \/ Extract
    \/ Copy
    \/ Convert
    \/ Save
    \/ Cleanup

SpecSweep == InitSweep /\ [][NextSweep]_vars

\* process_links has returned and is called again with the same arguments on
\* the links file as the first run left it; of the status events only the
\* "Successfully converted to GOD" ones of the first run are kept.
Rerun ==
    /\ pc = "complete"
    /\ run = 1
    /\ run' = 2
    /\ file0' = manifest_file
    /\ events' = {e \in events : e[1] = "god_converted"}
    /\ links_data' = <<>>
    /\ pc' = "load"
    /\ isos_to_convert' = <<>>
    /\ remaining_links' = <<>>
    /\ total_size_mb' = 0
    /\ total_to_process' = 0
    /\ processed_count' = 0
    /\ current_batch_links' = <<>>
    /\ current_batch_size_mb' = 0
    /\ slice_i' = 0
    /\ batch' = <<>>
    /\ idx' = 1
    /\ ret' = "none"
    /\ handed' = <<>>
    /\ attempted' = {}
    /\ succeeded' = {}
    /\ converted' = {}
    /\ raised' = {}
    /\ prev_written' = 0
    /\ unsaved' = {}
    /\ UNCHANGED <<manifest_file, cfg, output_isos, converter_ok, resume_k, resume_next>>
    /\ UNCHANGED <<tempVars, toolVars>>

\* Two runs in a row
NextRerun ==
    \/ Load
    \/ Sweep
    \/ Filter
    \/ SliceLoop
    \/ BatchReturn
    \/ EntryBegin
    \/ Extract
    \/ Copy
    \/ Convert
    \/ Save
    \/ Cleanup
    \/ Rerun

\* a manifest of one entry is enough for an entry to be converted twice
InitRerun == InitSweep /\ Len(manifest_file) = 1

SpecRerun == InitRerun /\ [][NextRerun]_vars

\* The same run up to the start of its first download
NextSweepStart ==
    \/ Load
    \/ Sweep
    \/ Filter
    \/ SliceLoop
    \/ BatchReturn
    \/ EntryBegin

SpecSweepStart == InitSweep /\ [][NextSweepStart]_vars

\* The start of a run, up to the choice of the batch mode: the links file may
\* be missing or hold invalid JSON.
InitLoad ==
    /\ manifest_file \in Manifests \cup {NoFile, InvalidJson}
    /\ cfg \in Configs
    /\ output_isos \in (IF cfg.convert_god /\ Readable(manifest_file)
                        THEN SUBSET IsoUrls(manifest_file) ELSE {{}})
    /\ converter_ok \in (IF cfg.convert_god THEN BOOLEAN ELSE {TRUE})
    /\ file0 = manifest_file
    /\ InitRun

NextLoad ==
    \/ Load
    \/ Sweep
    \/ Filter

SpecLoad == InitLoad /\ [][NextLoad]_vars

---------------------------------------------------------------------------
(* ISO2GODConverter (src/src/operations/iso2god.py): construction and one    *)
(* call of convert_iso_to_god, with the iso2god subprocess and the clock as  *)
(* its environment.  Times are in seconds.                                   *)

TimeoutS == 300        \* "no activity for 5 minutes"
TickS == 100           \* granularity of the clock
MaxClockS == 500       \* since_activity and silent are not counted beyond this
MaxPending == 1        \* lines waiting unread in a pipe of the subprocess

\* what the converter and its subprocess leave alone
restOfConverter == <<manifest_file, runVars, libVars, guiVars>>

LoopPcs == {"read_out", "read_err", "poll", "timecheck", "sleep"}

\* progress_queue.put(("status", ...)), by kind of message
Status(kind) == conv_status' = conv_status \cup {kind}

\* "return None" after a status of the given kind
ReturnNone(kind) ==
    /\ Status(kind)
    /\ conv_result' = "None"
    /\ conv_pc' = "returned"

\* the handler of the outer try: "Error during conversion", return None
OuterExcept == ReturnNone("error_during")

\* as InnerExceptPc, for a handler that re-raises
InnerExceptRaises == "raised"

\* the handler of "except Exception" of the inner try: "Error running iso2god", return None
InnerExceptPc == "returned"

InnerExcept ==
    /\ Status("error_running")
    /\ conv_result' = IF InnerExceptPc = "returned" THEN "None" ELSE "none"
    /\ conv_pc' = InnerExceptPc

InitConvert ==
    /\ conv_pc = "new"
    /\ process = NoProcess
    /\ since_activity = 0
    /\ silent = 0
    /\ conv_result = "none"
    /\ conv_status = {}
    /\ iso2god_found \in BOOLEAN
    /\ iso_exists \in BOOLEAN
    /\ god_files \in BOOLEAN
    /\ produced = FALSE

\* ISO2GODConverter.__init__
Construct ==
    /\ conv_pc = "new"
    /\ conv_pc' = IF iso2god_found THEN "ready" ELSE "init_raised"
    /\ UNCHANGED <<process, since_activity, silent, conv_result, conv_status,
                   iso2god_found, iso_exists, god_files, produced>>
    /\ UNCHANGED restOfConverter

\* convert_iso_to_god up to the inner try: thread count, path validation,
\* makedirs (which may fail), the command, the two "Converting" statuses
Begin ==
    /\ conv_pc = "ready"
    /\ IF ~iso_exists
       THEN /\ conv_status' = conv_status \cup {"threads", "iso_not_found"}
            /\ conv_result' = "None"
            /\ conv_pc' = "returned"
       ELSE \E makedirs_ok \in BOOLEAN :
               IF makedirs_ok
               THEN /\ conv_status' = conv_status \cup {"threads", "converting"}
                    /\ conv_result' = conv_result
                    /\ conv_pc' = "launch"
               ELSE /\ conv_status' = conv_status \cup {"threads", "error_during"}
                    /\ conv_result' = "None"
                    /\ conv_pc' = "returned"
    /\ UNCHANGED <<process, since_activity, silent, iso2god_found, iso_exists,
                   god_files, produced>>
    /\ UNCHANGED restOfConverter

\* subprocess.Popen(...), last_activity = time.time()
Launch ==
    /\ conv_pc = "launch"
    /\ \E started \in BOOLEAN :
          IF started
          THEN /\ process' = [NoProcess EXCEPT !.state = "alive"]
               /\ conv_pc' = "read_out"
               /\ UNCHANGED <<conv_result, conv_status>>
          ELSE /\ InnerExcept
               /\ process' = process
    /\ since_activity' = 0
    /\ silent' = 0
    /\ UNCHANGED <<iso2god_found, iso_exists, god_files, produced>>
    /\ UNCHANGED restOfConverter

\* pipe.readline() returns: a line is waiting, or the pipe is at end of file
\* while nothing is waiting.  Otherwise the call blocks.
CanRead(pending, eof) == pending > 0 \/ eof

\* "output = process.stdout.readline()" and the if below it
ReadOut ==
    /\ conv_pc = "read_out"
    /\ CanRead(process.stdout, process.stdout_eof)
    /\ IF process.stdout > 0
       THEN /\ process' = [process EXCEPT !.stdout = @ - 1]
            /\ Status("out_line")
            /\ since_activity' = 0
       ELSE UNCHANGED <<process, conv_status, since_activity>>
    /\ conv_pc' = "read_err"
    /\ UNCHANGED <<silent, conv_result, iso2god_found, iso_exists, god_files, produced>>
    /\ UNCHANGED restOfConverter

\* "error = process.stderr.readline()" and the if below it
ReadErr ==
    /\ conv_pc = "read_err"
    /\ CanRead(process.stderr, process.stderr_eof)
    /\ IF process.stderr > 0
       THEN /\ process' = [process EXCEPT !.stderr = @ - 1]
            /\ Status("err_line")
            /\ since_activity' = 0
       ELSE UNCHANGED <<process, conv_status, since_activity>>
    /\ conv_pc' = "poll"
    /\ UNCHANGED <<silent, conv_result, iso2god_found, iso_exists, god_files, produced>>
    /\ UNCHANGED restOfConverter

\* "if process.poll() is not None: break"
Poll ==
    /\ conv_pc = "poll"
    /\ conv_pc' = IF process.state = "exited" THEN "drain" ELSE "timecheck"
    /\ UNCHANGED <<process, since_activity, silent, conv_result, conv_status,
                   iso2god_found, iso_exists, god_files, produced>>
    /\ UNCHANGED restOfConverter

\* "if time.time() - last_activity > 300": kill, status, return None
TimeCheck ==
    /\ conv_pc = "timecheck"
    /\ IF since_activity > TimeoutS
       THEN /\ process' = [process EXCEPT !.state = "killed",
                                          !.stdout_eof = TRUE, !.stderr_eof = TRUE]
            /\ ReturnNone("frozen")
       ELSE /\ conv_pc' = "sleep"
            /\ UNCHANGED <<process, conv_result, conv_status>>
    /\ UNCHANGED <<since_activity, silent, iso2god_found, iso_exists, god_files, produced>>
    /\ UNCHANGED restOfConverter

\* "time.sleep(0.1)"
Sleep ==
    /\ conv_pc = "sleep"
    /\ conv_pc' = "read_out"
    /\ UNCHANGED <<process, since_activity, silent, conv_result, conv_status,
                   iso2god_found, iso_exists, god_files, produced>>
    /\ UNCHANGED restOfConverter

\* the return code that lets the conversion go on to look for the GOD file
ReturnCodeOk(rc) == rc = 0

\* process.communicate(), the remaining output, "Check return code"
Drain ==
    /\ conv_pc = "drain"
    /\ process' = [process EXCEPT !.stdout = 0, !.stderr = 0]
    /\ LET rest == (IF process.stdout > 0 THEN {"final_out"} ELSE {})
                   \cup (IF process.stderr > 0 THEN {"final_err"} ELSE {})
       IN  IF ReturnCodeOk(process.returncode)
           THEN /\ conv_status' = conv_status \cup rest
                /\ conv_pc' = "find"
                /\ conv_result' = conv_result
           ELSE /\ conv_status' = conv_status \cup rest \cup {"failed_rc"}
                /\ conv_result' = "None"
                /\ conv_pc' = "returned"
    /\ UNCHANGED <<since_activity, silent, iso2god_found, iso_exists, god_files, produced>>
    /\ UNCHANGED restOfConverter

\* "Find the converted GOD file": os.listdir (which may fail), the .000 test
FindGod ==
    /\ conv_pc = "find"
    /\ \E listed \in BOOLEAN :
          IF ~listed THEN OuterExcept
          ELSE IF god_files
               THEN /\ Status("success")
                    /\ conv_result' = "god_path"
                    /\ conv_pc' = "returned"
               ELSE ReturnNone("no_god_files")
    /\ UNCHANGED <<process, since_activity, silent, iso2god_found, iso_exists,
                   god_files, produced>>
    /\ UNCHANGED restOfConverter

(* The environment of the converter *)

\* the subprocess writes a line to stdout (stream = 1) or stderr (stream = 2)
ProcEmit ==
    /\ process.state = "alive"
    /\ \E stream \in {1, 2} :
          IF stream = 1
          THEN /\ ~process.stdout_eof
               /\ process.stdout < MaxPending
               /\ process' = [process EXCEPT !.stdout = @ + 1]
          ELSE /\ ~process.stderr_eof
               /\ process.stderr < MaxPending
               /\ process' = [process EXCEPT !.stderr = @ + 1]
    /\ silent' = 0
    /\ UNCHANGED <<conv_pc, since_activity, conv_result, conv_status, iso2god_found,
                   iso_exists, god_files, produced>>
    /\ UNCHANGED restOfConverter

\* the subprocess closes one of its output streams and goes on running
ProcClose ==
    /\ process.state = "alive"
    /\ \E stream \in {1, 2} :
          IF stream = 1
          THEN /\ ~process.stdout_eof
               /\ process' = [process EXCEPT !.stdout_eof = TRUE]
          ELSE /\ ~process.stderr_eof
               /\ process' = [process EXCEPT !.stderr_eof = TRUE]
    /\ UNCHANGED <<conv_pc, since_activity, silent, conv_result, conv_status,
                   iso2god_found, iso_exists, god_files, produced>>
    /\ UNCHANGED restOfConverter

\* the subprocess ends with a return code, having written a .000 file or not
ProcExit ==
    /\ process.state = "alive"
    /\ \E rc \in {0, 1}, wrote \in BOOLEAN :
          /\ process' = [process EXCEPT !.state = "exited", !.returncode = rc,
                                        !.stdout_eof = TRUE, !.stderr_eof = TRUE]
          /\ produced' = wrote
          /\ god_files' = (god_files \/ wrote)
    /\ UNCHANGED <<conv_pc, since_activity, silent, conv_result, conv_status,
                   iso2god_found, iso_exists>>
    /\ UNCHANGED restOfConverter

\* time passes while the converter is in its monitoring loop
Tick ==
    /\ conv_pc \in LoopPcs
    /\ since_activity' = Min2(since_activity + TickS, MaxClockS)
    /\ silent' = IF process.state = "alive" THEN Min2(silent + TickS, MaxClockS) ELSE silent
    /\ UNCHANGED <<conv_pc, process, conv_result, conv_status, iso2god_found,
                   iso_exists, god_files, produced>>
    /\ UNCHANGED restOfConverter

ConverterStep ==
    \/ Construct
    \/ Begin
    \/ Launch
    \/ ReadOut
    \/ ReadErr
    \/ Poll
    \/ TimeCheck
    \/ Sleep
    \/ Drain
    \/ FindGod

\* the pipeline is not running
PipelineIdle ==
    /\ links_data = <<>>
    /\ cfg = [filter_type |-> "All", batch_mode |-> "By Number", batch_size |-> 1,
              convert_god |-> FALSE, delete_iso |-> FALSE]
    /\ pc = "idle"
    /\ isos_to_convert = <<>>
    /\ remaining_links = <<>>
    /\ total_size_mb = 0
    /\ total_to_process = 0
    /\ processed_count = 0
    /\ current_batch_links = <<>>
    /\ current_batch_size_mb = 0
    /\ slice_i = 0
    /\ batch = <<>>
    /\ idx = 1
    /\ ret = "none"
    /\ handed = <<>>
    /\ output_isos = {}
    /\ converter_ok = TRUE
    /\ attempted = {}
    /\ succeeded = {}
    /\ converted = {}
    /\ raised = {}
    /\ events = {}
    /\ prev_written = 0
    /\ unsaved = {}
    /\ file0 = <<>>
    /\ run = 1
    /\ resume_k = 0
    /\ resume_next = 0
    /\ NoTempFiles

InitConverter ==
    /\ manifest_file = <<>>
    /\ PipelineIdle
    /\ LibraryIdle
    /\ GuiIdle
    /\ InitConvert

NextConvert ==
    \/ Construct
    \/ Begin
    \/ Launch
    \/ ReadOut
    \/ ReadErr
    \/ Poll
    \/ TimeCheck
    \/ Sleep
    \/ Drain
    \/ FindGod
    \/ ProcEmit
    \/ ProcClose
    \/ ProcExit
    \/ Tick

SpecConvert == InitConverter /\ [][NextConvert]_vars

\* The pipes of subprocess.Popen(stdout=PIPE, stderr=PIPE) hold a bounded
\* amount of unread output (MaxPending lines here).  The subprocess starts to
\* write a line to a pipe that is full: the write blocks.
ProcBlock ==
    /\ process.state = "alive"
    /\ \E stream \in {1, 2} :
          IF stream = 1
          THEN /\ ~process.stdout_eof
               /\ process.stdout = MaxPending
               /\ process' = [process EXCEPT !.state = "blocked_out"]
          ELSE /\ ~process.stderr_eof
               /\ process.stderr = MaxPending
               /\ process' = [process EXCEPT !.state = "blocked_err"]
    /\ UNCHANGED <<conv_pc, since_activity, silent, conv_result, conv_status,
                   iso2god_found, iso_exists, god_files, produced>>
    /\ UNCHANGED restOfConverter

\* the reader has made room in the pipe: the blocked write completes
ProcUnblock ==
    /\ \/ /\ process.state = "blocked_out"
          /\ process.stdout < MaxPending
          /\ process' = [process EXCEPT !.state = "alive", !.stdout = @ + 1]
       \/ /\ process.state = "blocked_err"
          /\ process.stderr < MaxPending
          /\ process' = [process EXCEPT !.state = "alive", !.stderr = @ + 1]
    /\ silent' = 0
    /\ UNCHANGED <<conv_pc, since_activity, conv_result, conv_status, iso2god_found,
                   iso_exists, god_files, produced>>
    /\ UNCHANGED restOfConverter

\* The converter and a subprocess whose writes can block
NextPipes ==
    \/ Construct
    \/ Begin
    \/ Launch
    \/ ReadOut
    \/ ReadErr
    \/ Poll
    \/ TimeCheck
    \/ Sleep
    \/ Drain
    \/ FindGod
    \/ ProcEmit
    \/ ProcClose
    \/ ProcExit
    \/ ProcBlock
    \/ ProcUnblock
    \/ Tick

SpecPipes == InitConverter /\ [][NextPipes]_vars

\* The converter's thread is scheduled and the clock advances; nothing is
\* assumed of the subprocess.
SpecConvertLive ==
    /\ InitConverter
    /\ [][NextConvert]_vars
    /\ WF_vars(ConverterStep)
    /\ WF_vars(Tick)

---------------------------------------------------------------------------
(* Manifest operations of LinkManager (src/src/models/link.py) outside a run: *)
(* process_urls_file, import_links_json, merge_links_files, and the fix-up of *)
(* missing fields, DownloaderApp._fix_links_issues (src/src/gui/app.py).      *)
(* An entry is a record whose fields are the keys its JSON object has; a      *)
(* list element that is no JSON object is the record [junk |-> TRUE].         *)
(* json.dump followed by json.load gives back the same list.                  *)

MaxUrl == 2            \* urls are 1..MaxUrl
MaxOps == 2            \* manifest operations in a behaviour of the import specification
MaxRewrites == 2       \* manifest operations in a behaviour of the rewrite specification
MaxSecondary == 1      \* entries of the secondary manifest in the rewrite specification
MaxFailList == 2       \* elements of a list in the error path specification
MaxList == 2           \* entries of a list given to an operation, and of the first manifest

\* link.get(field, default)
Get(link, field, default) == IF field \in DOMAIN link THEN link[field] ELSE default

IsDict(link) == "junk" \notin DOMAIN link

\* {link["url"] for link in links}
UrlSet(links) == {links[i].url : i \in 1..Len(links)}

\* a line of the URL text file: its text with or without surrounding blanks
Lines == [text : 1..MaxUrl, padded : BOOLEAN]

\* url.strip()
Strip(line) == line.text

\* the entry process_urls_file creates for a url
UrlLink(u, t) ==
    [url |-> u, downloaded |-> FALSE, extracted |-> FALSE, deleted |-> FALSE,
     copied |-> FALSE, size_bytes |-> 0, link_type |-> t]

\* lists of 0..n elements of S
RECURSIVE SeqsUpTo(_, _)
SeqsUpTo(S, n) ==
    IF n = 0 THEN {<<>>}
    ELSE LET shorter == SeqsUpTo(S, n - 1)
         IN  shorter \cup {Append(q, x) : q \in {r \in shorter : Len(r) = n - 1}, x \in S}

\* an operation begins: what it was given, the file it found, and what the
\* operation before it reported
Started(name, arg) ==
    /\ lib_pc = "idle"
    /\ lib_op' = [name |-> name, arg |-> arg, after |-> lib_report]
    /\ lib_before' = manifest_file
    /\ lib_count' = lib_count + 1

\* rest of the state, for an operation that runs outside the pipeline and the converter
restOfLibrary == <<runVars, convVars, guiVars>>

\* the set existing_urls while the new links are gone through: it is built
\* once from the existing links and not added to
ExistingUrlsSeen(existing, kept) == UrlSet(existing)

\* the new links that are kept: those whose url is not in existing_urls
RECURSIVE KeepNew(_, _, _)
KeepNew(existing, new_links, kept) ==
    IF new_links = <<>> THEN kept
    ELSE LET link == Head(new_links)
         IN  KeepNew(existing, Tail(new_links),
                     IF link.url \in ExistingUrlsSeen(existing, kept)
                     THEN kept ELSE Append(kept, link))

\* process_urls_file(urls, mode, link_type, progress_queue)
ProcessUrlsFile ==
    \E urls \in SeqsUpTo(Lines, MaxList) \ {<<>>}, mode \in {"append", "replace"},
       link_type \in LinkTypes, written \in BOOLEAN :
        /\ lib_count < MaxOps
        /\ Started("process_urls_file", [urls |-> urls, mode |-> mode])
        /\ LET new_links == [i \in 1..Len(urls) |-> UrlLink(Strip(urls[i]), link_type)]
               existing_links == IF mode = "append" THEN manifest_file ELSE <<>>
               kept == KeepNew(existing_links, new_links, <<>>)
               final_links == IF mode = "append" THEN existing_links \o kept ELSE new_links
           IN  /\ lib_data' = final_links
               /\ IF written
                  THEN /\ manifest_file' = final_links
                       /\ lib_report' = [name |-> "process_urls_file", raised |-> FALSE,
                                         added |-> Len(kept)]
                  ELSE /\ manifest_file' = manifest_file
                       /\ lib_report' = [name |-> "process_urls_file", raised |-> TRUE,
                                         added |-> 0]
        /\ lib_pc' = "idle"
        /\ UNCHANGED <<backup_file, restOfLibrary>>

\* an element of a remote list: a JSON object with a url, with or without a
\* size, or one without a url
RemoteLinks ==
    {[url |-> u] : u \in 1..MaxUrl}
      \cup {[url |-> u, size_bytes |-> 100] : u \in 1..MaxUrl}
      \cup {[name |-> "x"]}

\* "Validate each link"
ValidRemote(new_links) ==
    \A i \in 1..Len(new_links) : IsDict(new_links[i]) /\ "url" \in DOMAIN new_links[i]

\* import_links_json(url, mode, progress_queue), the response being new_links
ImportLinksJson ==
    \E new_links \in SeqsUpTo(RemoteLinks, MaxList), mode \in {"append", "replace"},
       written \in BOOLEAN :
        /\ lib_count < MaxOps
        /\ Started("import_links_json", [new_links |-> new_links, mode |-> mode])
        /\ IF ~ValidRemote(new_links)
           THEN /\ lib_report' = [name |-> "import_links_json", raised |-> TRUE, added |-> 0]
                /\ UNCHANGED <<manifest_file, lib_data>>
           ELSE LET existing_links == manifest_file
                    kept == KeepNew(existing_links, new_links, <<>>)
                    final_links == IF mode = "append" THEN existing_links \o kept
                                   ELSE new_links
                IN  /\ lib_data' = final_links
                    /\ IF written
                       THEN /\ manifest_file' = final_links
                            /\ lib_report' = [name |-> "import_links_json",
                                              raised |-> FALSE, added |-> Len(kept)]
                       ELSE /\ manifest_file' = manifest_file
                            /\ lib_report' = [name |-> "import_links_json",
                                              raised |-> TRUE, added |-> 0]
        /\ lib_pc' = "idle"
        /\ UNCHANGED <<backup_file, restOfLibrary>>

(* merge_links_files(second_file, progress_queue) *)

\* an entry of a secondary manifest: a url, with or without a size
SecondaryLinks ==
    {[url |-> u] : u \in 1..MaxUrl}
      \cup {[url |-> u, size_bytes |-> z] : u \in 1..MaxUrl, z \in {0, 200}}

HasUrl(link) == IsDict(link) /\ "url" \in DOMAIN link

\* as ShouldCopySize, copying whenever the secondary has a size
ShouldCopySizeAlways(old_link, new_link) == Get(new_link, "size_bytes", 0) # 0

\* "If the new link has size info and old one doesn't, update it"
ShouldCopySize(old_link, new_link) ==
    Get(old_link, "size_bytes", 0) = 0 /\ Get(new_link, "size_bytes", 0) # 0

\* "for old_link in primary_links: if old_link['url'] == new_link['url']": its index
FirstWithUrl(links, u) == CHOOSE i \in 1..Len(links) :
    links[i].url = u /\ \A j \in 1..(i - 1) : links[j].url # u

\* old_link['size_bytes'] = new_link['size_bytes']
CopySize(old_link, new_link) ==
    [f \in DOMAIN old_link \cup {"size_bytes"} |->
        IF f = "size_bytes" THEN new_link.size_bytes ELSE old_link[f]]

\* the loop "for i, new_link in enumerate(secondary_links)"; m holds
\* primary_links, new_links, duplicates and updates
RECURSIVE MergeLoop(_, _, _)
MergeLoop(existing_urls, secondary_links, m) ==
    IF secondary_links = <<>> THEN m
    ELSE LET new_link == Head(secondary_links)
             rest == Tail(secondary_links)
         IN  IF new_link.url \in existing_urls
             THEN LET i == FirstWithUrl(m.primary_links, new_link.url)
                      old_link == m.primary_links[i]
                  IN  IF ShouldCopySize(old_link, new_link)
                      THEN MergeLoop(existing_urls, rest,
                               [m EXCEPT !.primary_links[i] = CopySize(old_link, new_link),
                                         !.updates = @ + 1, !.duplicates = @ + 1])
                      ELSE MergeLoop(existing_urls, rest, [m EXCEPT !.duplicates = @ + 1])
             ELSE MergeLoop(existing_urls, rest, [m EXCEPT !.new_links = Append(@, new_link)])

MergeRaises ==
    /\ lib_report' = [name |-> "merge_links_files", raised |-> TRUE, added |-> 0]
    /\ lib_pc' = "idle"
    /\ lib_data' = <<>>

\* the existence checks, "Load both files", "Validate format"; the merge is
\* one of the first max_ops operations and its secondary manifest has up to
\* max_len entries
MergeLoad(max_ops, max_len) ==
    \E secondary_links \in SeqsUpTo(SecondaryLinks, max_len) :
        /\ lib_count < max_ops
        /\ Started("merge_links_files", [secondary_links |-> secondary_links])
        /\ lib_data' = <<manifest_file, secondary_links>>
        /\ lib_pc' = "merge_loaded"
        /\ UNCHANGED <<manifest_file, backup_file, lib_report, restOfLibrary>>

\* as MergeAfterLoad, for a merge that goes on to the merge loop at once
MergeAfterLoadNoBackup == "merge_loop"

\* the step of merge_links_files that follows the loading of the two files
MergeAfterLoad == "merge_backup"

\* "Create backup of primary file": shutil.copy2, which may fail
MergeBackup ==
    /\ lib_pc = "merge_loaded"
    /\ \E copied \in BOOLEAN :
          IF MergeAfterLoad = "merge_backup"
          THEN IF copied
               THEN /\ backup_file' = manifest_file
                    /\ lib_pc' = "merge_backed"
                    /\ UNCHANGED <<lib_data, lib_report>>
               ELSE /\ MergeRaises
                    /\ backup_file' = backup_file
          ELSE /\ lib_pc' = "merge_backed"
               /\ UNCHANGED <<backup_file, lib_data, lib_report>>
    /\ UNCHANGED <<manifest_file, lib_op, lib_before, lib_count, restOfLibrary>>

\* the url set, the merge loop, "Combine lists", "Save merged file", the final status
MergeWrite ==
    /\ lib_pc = "merge_backed"
    /\ LET primary_links == lib_data[1]
           secondary_links == lib_data[2]
       IN  IF \/ \E i \in 1..Len(primary_links) : ~HasUrl(primary_links[i])
              \/ \E i \in 1..Len(secondary_links) : ~HasUrl(secondary_links[i])
           THEN MergeRaises /\ manifest_file' = manifest_file
           ELSE LET m == MergeLoop(UrlSet(primary_links), secondary_links,
                                   [primary_links |-> primary_links, new_links |-> <<>>,
                                    duplicates |-> 0, updates |-> 0])
                    merged_links == m.primary_links \o m.new_links
                IN  \E written \in BOOLEAN :
                       IF written
                       THEN /\ manifest_file' = merged_links
                            /\ lib_data' = merged_links
                            /\ lib_pc' = "idle"
                            /\ lib_report' = [name |-> "merge_links_files", raised |-> FALSE,
                                              added |-> Len(m.new_links),
                                              duplicates |-> m.duplicates,
                                              updates |-> m.updates,
                                              total |-> Len(merged_links)]
                       ELSE MergeRaises /\ manifest_file' = manifest_file
    /\ UNCHANGED <<backup_file, lib_op, lib_before, lib_count, restOfLibrary>>

(* DownloaderApp._fix_links_issues (src/src/gui/app.py) *)

\* LINK_SCHEMA['common']; None is the string "None", '' the url 0
CommonDefaults ==
    [url |-> 0, link_type |-> "Unknown", name |-> "", size_bytes |-> 0, enabled |-> TRUE,
     processed |-> FALSE, downloaded |-> FALSE, extracted |-> FALSE, deleted |-> FALSE,
     copied |-> FALSE, imported |-> FALSE, import_date |-> "None", output_path |-> "None"]

\* LINK_SCHEMA['iso']
IsoDefaults ==
    [god_converted |-> FALSE, god_conversion_date |-> "None", god_output_path |-> "None",
     god_conversion_error |-> "None", god_conversion_progress |-> 0,
     god_conversion_started |-> FALSE, god_conversion_completed |-> FALSE]

\* a link_type that is JSON null
NullType == "<null>"

\* str.upper() on the link types of the model
Upper(t) == IF t = "iso" THEN "ISO" ELSE IF t = "xbla" THEN "XBLA" ELSE t

\* link.get('link_type', '').upper() == 'ISO'
IsIsoType(link) == Upper(Get(link, "link_type", "")) = "ISO"

\* the fields fixed_link gets for a link
FixedFields(link) ==
    IF IsIsoType(link) THEN DOMAIN CommonDefaults \cup DOMAIN IsoDefaults
    ELSE DOMAIN CommonDefaults

\* "Create a new link with all required fields"
FixLink(link) ==
    [f \in FixedFields(link) |->
        IF f \in DOMAIN link THEN link[f]
        ELSE IF f \in DOMAIN CommonDefaults THEN CommonDefaults[f] ELSE IsoDefaults[f]]

\* the dictionaries of links_data, in order ("if not isinstance(link, dict): continue")
Dicts(data) == SelectSeq(data, IsDict)

\* fixed_links
FixedLinks(data) ==
    LET d == Dicts(data) IN [i \in 1..Len(d) |-> FixLink(d[i])]

\* as Modified, for a fix-up that counts every dictionary as modified
ModifiedAlways(data) == Dicts(data) # <<>>

\* modified: some dictionary differs from its fixed link
Modified(data) ==
    LET d == Dicts(data) IN \E i \in 1..Len(d) : FixLink(d[i]) # d[i]

\* .upper() of a link_type that is no string raises
FixRaises(data) ==
    LET d == Dicts(data)
    IN  \E i \in 1..Len(d) : Get(d[i], "link_type", "") = NullType

\* the handler "Error fixing links.json": a message, nothing is raised
FixFails ==
    /\ lib_report' = [name |-> "fix_links_issues", raised |-> FALSE, failed |-> TRUE,
                      modified |-> FALSE]
    /\ lib_pc' = "idle"

\* json.load of the links file
FixLoad ==
    /\ lib_count < MaxRewrites
    /\ Started("fix_links_issues", [none |-> TRUE])
    /\ lib_data' = manifest_file
    /\ lib_pc' = "fix_loaded"
    /\ UNCHANGED <<manifest_file, backup_file, lib_report, restOfLibrary>>

\* "Create backup": json.dump of links_data to the .bak file, which may fail
FixBackup ==
    /\ lib_pc = "fix_loaded"
    /\ \E dumped \in BOOLEAN :
          IF dumped
          THEN /\ backup_file' = lib_data
               /\ lib_pc' = "fix_backed"
               /\ lib_report' = lib_report
          ELSE /\ FixFails
               /\ backup_file' = backup_file
    /\ UNCHANGED <<manifest_file, lib_op, lib_data, lib_before, lib_count, restOfLibrary>>

\* the loop over links_data, "if modified": the write of fixed_links
FixWrite ==
    /\ lib_pc = "fix_backed"
    /\ IF FixRaises(lib_data)
       THEN FixFails /\ UNCHANGED <<manifest_file, lib_data>>
       ELSE IF Modified(lib_data)
            THEN \E written \in BOOLEAN :
                    IF written
                    THEN /\ manifest_file' = FixedLinks(lib_data)
                         /\ lib_data' = FixedLinks(lib_data)
                         /\ lib_pc' = "idle"
                         /\ lib_report' = [name |-> "fix_links_issues", raised |-> FALSE,
                                           failed |-> FALSE, modified |-> TRUE]
                    ELSE FixFails /\ UNCHANGED <<manifest_file, lib_data>>
            ELSE /\ lib_pc' = "idle"
                 /\ lib_report' = [name |-> "fix_links_issues", raised |-> FALSE,
                                   failed |-> FALSE, modified |-> FALSE]
                 /\ UNCHANGED <<manifest_file, lib_data>>
    /\ UNCHANGED <<backup_file, lib_op, lib_before, lib_count, restOfLibrary>>

(* Specifications of the manifest operations *)

UniqueUrls(links) ==
    \A i, j \in 1..Len(links) :
        (HasUrl(links[i]) /\ HasUrl(links[j]) /\ links[i].url = links[j].url) => i = j

\* entries of the first manifest of the import specification
ImportLinks ==
    {[url |-> u] : u \in 1..MaxUrl}
      \cup {[url |-> u, size_bytes |-> 100] : u \in 1..MaxUrl}
      \cup {UrlLink(u, "ISO") : u \in 1..MaxUrl}

LibraryStart ==
    /\ lib_pc = "idle"
    /\ lib_op = [name |-> "none"]
    /\ lib_data = <<>>
    /\ lib_before = <<>>
    /\ lib_report = [name |-> "none"]
    /\ lib_count = 0

\* a manifest with unique urls, then up to MaxOps operations that add entries
InitImport ==
    /\ manifest_file \in {m \in SeqsUpTo(ImportLinks, MaxList) : UniqueUrls(m)}
    /\ backup_file = NoFile
    /\ LibraryStart
    /\ PipelineIdle
    /\ ConverterIdle
    /\ GuiIdle

NextImport ==
    \/ ProcessUrlsFile
    \/ ImportLinksJson
    \/ MergeLoad(MaxOps, MaxList)
    \/ MergeBackup
    \/ MergeWrite

SpecImport == InitImport /\ [][NextImport]_vars

\* a link with every field of the schema
FullLink(u, t) ==
    LET link == [url |-> u, link_type |-> t, name |-> "game"]
    IN  [f \in DOMAIN CommonDefaults \cup (IF Upper(t) = "ISO" THEN DOMAIN IsoDefaults ELSE {}) |->
            IF f \in DOMAIN link THEN link[f]
            ELSE IF f \in DOMAIN CommonDefaults THEN CommonDefaults[f] ELSE IsoDefaults[f]]

\* a link with a field that its type does not have in the schema
WithExtra(link) ==
    [f \in DOMAIN link \cup {"god_converted"} |->
        IF f = "god_converted" THEN TRUE ELSE link[f]]

\* entries of the first manifest of the rewrite specification: links with
\* fields missing, complete links, links with a field too many, a link whose
\* type is null, and an element that is no JSON object
RewriteLinks ==
    {[url |-> u] : u \in 1..MaxUrl}
      \cup {[url |-> u, size_bytes |-> 100] : u \in 1..MaxUrl}
      \cup {UrlLink(u, "iso") : u \in 1..MaxUrl}
      \cup {FullLink(u, "ISO") : u \in 1..MaxUrl}
      \cup {WithExtra(FullLink(u, "XBLA")) : u \in 1..MaxUrl}
      \cup {[url |-> u, link_type |-> NullType] : u \in 1..MaxUrl}
      \cup {[junk |-> TRUE]}

\* a manifest, then a merge or not, then fix-ups
InitRewrite ==
    /\ manifest_file \in {m \in SeqsUpTo(RewriteLinks, MaxList) : UniqueUrls(m)}
    /\ backup_file = NoFile
    /\ LibraryStart
    /\ PipelineIdle
    /\ ConverterIdle
    /\ GuiIdle

NextRewrite ==
    \/ MergeLoad(1, MaxSecondary)
    \/ MergeBackup
    \/ MergeWrite
    \/ FixLoad
    \/ FixBackup
    \/ FixWrite

SpecRewrite == InitRewrite /\ [][NextRewrite]_vars

(* merge_links_files and import_links_json with their error paths *)

\* contents of a file that is valid JSON and not a list
NotAList == <<[notalist |-> TRUE]>>

IsList(file) == Readable(file) /\ file # NotAList

\* elements of a list: objects with a url, an object without one, and an
\* element that is no object
FailLinks == {[url |-> 1], [url |-> 2, size_bytes |-> 100], [name |-> "x"], [junk |-> TRUE]}

\* a links file, a secondary file or the body of a response: missing (for a
\* response: the request failed), not JSON, not a list, or a list of up to
\* MaxFailList elements
FailFiles == {NoFile, InvalidJson, NotAList} \cup SeqsUpTo(FailLinks, MaxFailList)

AllHaveUrl(links) == \A i \in 1..Len(links) : HasUrl(links[i])

\* (variant: the handler raises again without a status)
ErrorRaisedSilently(name, cause) ==
    [name |-> name, raised |-> TRUE, status |-> "none", cause |-> cause]

\* "except Exception as e": the status "Error merging links" or "Error
\* importing links", then raise; cause names the statement that raised
ErrorRaised(name, cause) ==
    [name |-> name, raised |-> TRUE, status |-> "error", cause |-> cause]

\* the links file after "with open(links_file, 'w') as f: json.dump(links, f)":
\* open may fail, and json.dump may fail behind it
WriteResult(file, links, opened, written) ==
    IF ~opened THEN file ELSE IF ~written THEN InvalidJson ELSE links

\* merge_links_files(second_file, progress_queue): the links file, the .bak
\* file and the report it ends with
MergeOutcome(primary, backup, second, copied, opened, written) ==
    LET fails(cause, bak) ==
            [file |-> primary, backup |-> bak,
             report |-> ErrorRaised("merge_links_files", cause)]
    IN  IF primary = NoFile THEN fails("primary_missing", backup)
        ELSE IF second = NoFile THEN fails("secondary_missing", backup)
        ELSE IF primary = InvalidJson \/ second = InvalidJson
             THEN fails("invalid_json", backup)
        ELSE IF primary = NotAList \/ second = NotAList THEN fails("not_a_list", backup)
        ELSE IF ~copied THEN fails("backup", backup)
        ELSE IF ~AllHaveUrl(primary) \/ ~AllHaveUrl(second)
             THEN fails("invalid_link", primary)
        ELSE LET m == MergeLoop(UrlSet(primary), second,
                                [primary_links |-> primary, new_links |-> <<>>,
                                 duplicates |-> 0, updates |-> 0])
                 merged_links == m.primary_links \o m.new_links
             IN  [file |-> WriteResult(primary, merged_links, opened, written),
                  backup |-> primary,
                  report |-> IF opened /\ written
                             THEN [name |-> "merge_links_files", raised |-> FALSE,
                                   status |-> "complete", cause |-> "none"]
                             ELSE ErrorRaised("merge_links_files", "write")]

MergeLinksFiles ==
    \E second_file \in FailFiles, copied \in BOOLEAN, opened \in BOOLEAN,
       written \in BOOLEAN :
        /\ lib_count = 0
        /\ Started("merge_links_files", [second_file |-> second_file])
        /\ LET o == MergeOutcome(manifest_file, backup_file, second_file,
                                 copied, opened, written)
           IN  /\ manifest_file' = o.file
               /\ backup_file' = o.backup
               /\ lib_report' = o.report
        /\ lib_data' = <<>>
        /\ lib_pc' = "idle"
        /\ UNCHANGED restOfLibrary

\* import_links_json(url, mode, progress_queue): the links file and the
\* report it ends with; response is what the url gives
ImportOutcome(existing, response, mode, opened, written) ==
    LET fails(cause) ==
            [file |-> existing, report |-> ErrorRaised("import_links_json", cause)]
    IN  IF response = NoFile THEN fails("request")
        ELSE IF response = InvalidJson THEN fails("invalid_json")
        ELSE IF response = NotAList THEN fails("not_a_list")
        ELSE IF ~AllHaveUrl(response) THEN fails("invalid_link")
        ELSE IF mode = "append" /\ existing # NoFile /\ ~IsList(existing)
             THEN fails("existing_links")
        ELSE IF mode = "append" /\ existing # NoFile /\ ~AllHaveUrl(existing)
             THEN fails("existing_links")
        ELSE LET existing_links == IF existing = NoFile THEN <<>> ELSE existing
                 new_links == IF mode = "append"
                              THEN existing_links \o KeepNew(existing_links, response, <<>>)
                              ELSE response
             IN  [file |-> WriteResult(existing, new_links, opened, written),
                  report |-> IF opened /\ written
                             THEN [name |-> "import_links_json", raised |-> FALSE,
                                   status |-> "imported", cause |-> "none"]
                             ELSE ErrorRaised("import_links_json", "write")]

ImportJson ==
    \E response \in FailFiles, mode \in {"append", "replace"}, opened \in BOOLEAN,
       written \in BOOLEAN :
        /\ lib_count = 0
        /\ Started("import_links_json", [response |-> response, mode |-> mode])
        /\ LET o == ImportOutcome(manifest_file, response, mode, opened, written)
           IN  /\ manifest_file' = o.file
               /\ lib_report' = o.report
        /\ lib_data' = <<>>
        /\ lib_pc' = "idle"
        /\ UNCHANGED <<backup_file, restOfLibrary>>

\* one merge or one import on any links file
InitFail ==
    /\ manifest_file \in FailFiles
    /\ backup_file = NoFile
    /\ LibraryStart
    /\ PipelineIdle
    /\ ConverterIdle
    /\ GuiIdle

NextFail ==
    \/ MergeLinksFiles
    \/ ImportJson

SpecFail == InitFail /\ [][NextFail]_vars

---------------------------------------------------------------------------
(* Properties *)

ErrorEventUrls == {e[2] : e \in {x \in events : x[1] = "error"}}

AnyFlag(link) == link.downloaded \/ link.extracted \/ link.copied \/ link.processed

\* C1: every url that is in the manifest file when the run starts is still in
\* the manifest file after every write of the run.
C1_NoEntryRemoved == Urls(file0) \subseteq Urls(manifest_file)

\* C2: after an interruption that follows the manifest write of entry k and
\* precedes entry k+1 (an entry still incomplete in the file), the run
\* restarted with filter Incomplete never downloads entry k again, and it has
\* downloaded entry k+1 when it completes.
C2_Resumes ==
    run = 2 =>
        /\ resume_k \notin attempted
        /\ (/\ pc = "complete"
            /\ resume_next \in Urls(file0)
            /\ NotComplete(LinkOf(file0, resume_next))
            => resume_next \in attempted)

\* C3: when the loop of _process_batch is about to begin another entry (or to
\* return), no status mutation made in memory is missing from the manifest file.
C3_MutationsPersisted == pc = "entry" => unsaved = {}

\* C4: no disabled entry is downloaded (hence extracted or copied) or passed to
\* the converter, by the batches or by the sweep of existing ISOs.
C4_DisabledUntouched ==
    \A u \in attempted \cup converted : LinkOf(file0, u).enabled

C6_FailedStaysPending ==
    \A data \in {links_data, manifest_file} :
        \A i \in 1..Len(data) :
            AnyFlag(data[i]) =>
                \/ data[i].url \in succeeded
                \/ AnyFlag(LinkOf(file0, data[i].url))

\* the copy of a pending entry failed and a manifest written afterwards shows
\* the entry with all flags clear
C6_Witness ==
    /\ pc = "complete"
    /\ manifest_file # file0
    /\ \E u \in Urls(manifest_file) :
          /\ <<"copy_failed", u>> \in events
          /\ u \notin succeeded
          /\ ~AnyFlag(LinkOf(manifest_file, u))
          /\ prev_written \notin {0, u}

---------------------------------------------------------------------------
(* Properties of the batches handed to _process_batch *)

RECURSIVE Flatten(_)
Flatten(ss) == IF ss = <<>> THEN <<>> ELSE Head(ss) \o Flatten(Tail(ss))

Range(s) == {s[i] : i \in 1..Len(s)}

RECURSIVE SumOver(_, _)
SumOver(data, us) ==
    IF us = {} THEN 0
    ELSE LET u == CHOOSE x \in us : TRUE
         IN  SizeMB(data, u) + SumOver(data, us \ {u})

\* the entries placed into a batch so far
Placed == Range(Flatten(handed)) \cup Range(current_batch_links)

BySize == cfg.batch_mode = "By Size (MB)" /\ pc \notin {"load", "filter"}

ByNumber == cfg.batch_mode = "By Number" /\ pc \notin {"load", "filter"}

\* C7 (as stated): no batch handed to _process_batch is larger than the bin
\* capacity.
C7_BatchWithinCapacity ==
    BySize => \A i \in 1..Len(handed) :
                  SumSizes(links_data, handed[i]) <= BinCapacityMB

\* C7 (amended): a batch handed to _process_batch is larger than the bin
\* capacity only if it consists of one entry that is itself larger.
C7_BatchWithinCapacityOrSingle ==
    BySize => \A i \in 1..Len(handed) :
                  \/ SumSizes(links_data, handed[i]) <= BinCapacityMB
                  \/ /\ Len(handed[i]) = 1
                     /\ SizeMB(links_data, handed[i][1]) > BinCapacityMB

\* a batch of several entries filled beyond 90% of the capacity, and another batch
C7_Witness ==
    /\ BySize
    /\ pc = "complete"
    /\ Len(handed) >= 2
    /\ \E i \in 1..Len(handed) :
          /\ Len(handed[i]) >= 2
          /\ 10 * SumSizes(links_data, handed[i]) >= 9 * BinCapacityMB

\* C8: the sizes of the entries placed into batches never add up to more than
\* the total cap batch_size, and once they have reached it no further entry
\* is placed.
C8_TotalCap ==
    /\ [](BySize => SumOver(links_data, Placed) <= cfg.batch_size)
    /\ [][BySize /\ SumOver(links_data, Placed) >= cfg.batch_size
              => Placed' = Placed]_vars

\* the cap is reached exactly while entries remain unplaced
C8_Witness ==
    /\ BySize
    /\ pc = "complete"
    /\ SumOver(links_data, Placed) = cfg.batch_size
    /\ Urls(links_data) \ Placed # {}

NoFailure ==
    /\ raised = {}
    /\ attempted = succeeded
    /\ \A e \in events : e[1] \in {"success", "complete", "marked"}

\* C10: filter All, By Number with batch size 1, a manifest of an enabled ISO
\* entry followed by an enabled XBLA entry, every stage succeeding: the run
\* processes the ISO entry, then the XBLA entry, and ends with copied set for
\* both in the manifest file.
C10_EndToEnd ==
    (/\ run = 1
     /\ pc = "complete"
     /\ cfg.filter_type = "All"
     /\ cfg.batch_mode = "By Number"
     /\ cfg.batch_size = 1
     /\ Len(file0) = 2
     /\ file0[1].link_type = "ISO" /\ file0[2].link_type = "XBLA"
     /\ file0[1].enabled /\ file0[2].enabled
     /\ ~AnyFlag(file0[1]) /\ ~AnyFlag(file0[2])
     /\ NoFailure)
    => /\ Flatten(handed) = <<1, 2>>
       /\ \A i \in 1..Len(manifest_file) : manifest_file[i].copied

---------------------------------------------------------------------------
(* Properties of the converter *)

\* the subprocess is alive and has written no line for more than TimeoutS
\* seconds while convert_iso_to_god monitors it
Frozen ==
    /\ conv_pc \in LoopPcs
    /\ process.state = "alive"
    /\ silent > TimeoutS

FrozenKilled ==
    /\ process.state = "killed"
    /\ conv_result = "None"
    /\ "frozen" \in conv_status

\* C11: once the subprocess has stayed alive and silent for more than 300
\* seconds, convert_iso_to_god kills it, emits the frozen-process status and
\* returns None (unless the subprocess writes a line or ends first).
C11_FrozenProcessKilled == Frozen ~> (FrozenKilled \/ ~Frozen)

Returned == conv_pc = "returned"

\* C12: convert_iso_to_god returns a GOD path only after the subprocess exited
\* with code 0 and with a .000 file in output_dir; after a non-zero exit it
\* returns None; after an exit with code 0 where the subprocess wrote no
\* output file it returns None, with the 'No GOD files found' status (or the
\* status of a failed directory listing).
C12_GodPathOnlyOnOutput ==
    /\ conv_result = "god_path" =>
            process.state = "exited" /\ process.returncode = 0 /\ god_files
    /\ (Returned /\ process.state = "exited" /\ process.returncode # 0) =>
            conv_result = "None" /\ "failed_rc" \in conv_status
    /\ (Returned /\ process.state = "exited" /\ process.returncode = 0 /\ ~produced) =>
            /\ conv_result = "None"
            /\ conv_status \cap {"no_god_files", "error_during"} # {}

\* kinds of status that report a failure
FailureKinds == {"iso_not_found", "error_during", "error_running", "frozen",
                 "failed_rc", "no_god_files"}

---------------------------------------------------------------------------
(* Properties of the manifest operations *)

\* the operation named has run to its end without raising
Done(name) == lib_pc = "idle" /\ lib_op.name = name /\ ~lib_report.raised

\* C14: a process_urls_file call in append mode on a manifest with unique urls
\* leaves a manifest with unique urls, whatever the URL list (hence so does
\* any sequence of such calls).
C14_UrlsFileKeepsUnique ==
    (Done("process_urls_file") /\ lib_op.arg.mode = "append" /\ UniqueUrls(lib_before))
        => UniqueUrls(manifest_file)

\* C15: merge_links_files of any secondary manifest into a primary manifest
\* with unique urls writes a manifest with unique urls.
C15_MergeKeepsUnique ==
    (Done("merge_links_files") /\ UniqueUrls(lib_before)) => UniqueUrls(manifest_file)

\* C16: import_links_json in append mode, on a manifest with unique urls and
\* any valid remote list, writes a manifest with unique urls that begins with
\* the entries it had, unchanged and in order.
C16_ImportAppendsUnseen ==
    (Done("import_links_json") /\ lib_op.arg.mode = "append" /\ UniqueUrls(lib_before))
        => /\ UniqueUrls(manifest_file)
           /\ Len(manifest_file) >= Len(lib_before)
           /\ SubSeq(manifest_file, 1, Len(lib_before)) = lib_before

UrlsOf(links) == [i \in 1..Len(links) |-> links[i].url]

\* C17: after merge_links_files of B into A (A with unique urls) the manifest
\* has |A| + |B \ A| entries, B \ A being the urls of B not in A; the entries
\* of A come first in their order; the reported 'added' count is |B \ A|.
C17_MergeCount ==
    (Done("merge_links_files") /\ UniqueUrls(lib_before)) =>
        LET A == lib_before
            B == lib_op.arg.secondary_links
            fresh == UrlSet(B) \ UrlSet(A)
        IN  /\ Len(manifest_file) = Len(A) + Cardinality(fresh)
            /\ SubSeq(UrlsOf(manifest_file), 1, Len(A)) = UrlsOf(A)
            /\ lib_report.added = Cardinality(fresh)

\* the first entry of B with url u that has a size, or 0
RECURSIVE FirstSize(_, _)
FirstSize(B, u) ==
    IF B = <<>> THEN 0
    ELSE IF Head(B).url = u /\ Get(Head(B), "size_bytes", 0) # 0
         THEN Head(B).size_bytes
         ELSE FirstSize(Tail(B), u)

\* a merge of B into a manifest A of entries with unique urls has been written
Merged ==
    /\ Done("merge_links_files")
    /\ UniqueUrls(lib_before)
    /\ \A i \in 1..Len(lib_before) : HasUrl(lib_before[i])

\* C18 (as stated): after a merge of B into A, an entry of A whose url is in B
\* with a larger size_bytes has B's size_bytes.
C18_LargerSizeCopied ==
    Merged =>
        \A i \in 1..Len(lib_before) :
            LET B == lib_op.arg.secondary_links
            IN  \A j \in 1..Len(B) :
                  (/\ B[j].url = lib_before[i].url
                   /\ Get(B[j], "size_bytes", 0) > Get(lib_before[i], "size_bytes", 0)
                   /\ \A k \in 1..(j - 1) : B[k].url # B[j].url)
                      => Get(manifest_file[i], "size_bytes", 0) = B[j].size_bytes

\* C18 (amended): after a merge of B into A, an entry of A whose size_bytes is
\* zero or missing has the size_bytes of the first entry of B with its url
\* that has a size, if there is one; every other entry of A is unchanged,
\* whatever sizes B has.
C18_SizeCopiedOnlyIfMissing ==
    Merged =>
        \A i \in 1..Len(lib_before) :
            LET old_link == lib_before[i]
                size == FirstSize(lib_op.arg.secondary_links, old_link.url)
            IN  IF Get(old_link, "size_bytes", 0) = 0 /\ size # 0
                THEN /\ manifest_file[i].size_bytes = size
                     /\ \A f \in DOMAIN old_link \ {"size_bytes"} :
                           manifest_file[i][f] = old_link[f]
                ELSE manifest_file[i] = old_link

\* B has a url of A with a larger size: the entry of A had no size and the
\* merged manifest shows it with B's
C18_Witness ==
    /\ Merged
    /\ lib_report.updates = 1
    /\ \E i \in 1..Len(lib_before) :
          /\ Get(lib_before[i], "size_bytes", 0) = 0
          /\ Get(manifest_file[i], "size_bytes", 0) = 200
    /\ lib_op.arg.secondary_links # <<>>

\* C19: a step that changes the manifest file, in a merge or in the fix-up,
\* is taken when the .bak file holds what the manifest file held when the
\* operation began, which is what it holds until that step; the step leaves
\* the .bak file alone.
C19_BackupBeforeRewrite ==
    [][manifest_file' # manifest_file =>
          /\ backup_file = manifest_file
          /\ backup_file = lib_before
          /\ backup_file' = backup_file]_vars

\* a fix-up that followed another operation has replaced an older .bak file
\* and then rewritten the manifest
C19_Witness ==
    /\ lib_pc = "idle"
    /\ lib_count = 2
    /\ lib_op.name = "fix_links_issues"
    /\ lib_report.modified
    /\ manifest_file # lib_before
    /\ backup_file = lib_before

\* C20: a fix-up run on the manifest that a fix-up has just written reports
\* no modification and leaves the manifest file as it is.
C20_FixIdempotent ==
    (/\ lib_pc = "idle"
     /\ lib_op.name = "fix_links_issues"
     /\ lib_op.after.name = "fix_links_issues"
     /\ lib_op.after.modified)
        => /\ ~lib_report.modified
           /\ manifest_file = lib_before

\* the second of two fix-ups has run to its end, the first having rewritten
\* the manifest
C20_Witness ==
    /\ lib_pc = "idle"
    /\ lib_op.name = "fix_links_issues"
    /\ lib_op.after.name = "fix_links_issues"
    /\ lib_op.after.modified
    /\ lib_report.name = "fix_links_issues"
    /\ ~lib_report.failed
    /\ ~lib_report.modified
    /\ backup_file = manifest_file

---------------------------------------------------------------------------
(* DownloaderApp (src/src/gui/app.py): the processing flag, the background   *)
(* threads, and the handlers of the GUI thread that rewrite the links file.  *)
(* The handlers run one at a time in the GUI thread; a background thread     *)
(* runs beside them.  What the HDD import, merge and name generation threads *)
(* do between their start and their end is not part of this section.         *)

MaxGuiLinks == 1       \* entries of the manifest of the GUI specification
MaxIsoFiles == 1       \* ISO files in the folder given to _run_conversion

restOfGui == <<runVars, convVars, libVars>>

Worker(kind, at, files) == [kind |-> kind, at |-> at, files |-> files]

Running(kind) == \E i \in 1..Len(workers) : workers[i].kind = kind

FirstOfKind(kind) ==
    CHOOSE i \in 1..Len(workers) :
        workers[i].kind = kind /\ \A j \in 1..(i - 1) : workers[j].kind # kind

\* (variant: a handler that starts a thread without looking at the flag)
CanStartAlways == TRUE

\* "if self.processing: ... return" at the head of a handler that starts a thread
CanStart == ~processing

\* the GUI thread is in no handler
GuiReady == gui_pc = "idle"

\* "self.processing = True", then threading.Thread(target=..., daemon=True).start()
StartWorker(w) ==
    /\ processing' = TRUE
    /\ workers' = Append(workers, w)

\* "finally: self.processing = False", the last statements of a thread
EndWorker(kind) ==
    /\ processing' = FALSE
    /\ workers' = RemoveAt(workers, FirstOfKind(kind))

\* _start_processing: the thread begins _process_links, which calls process_links
StartProcessing ==
    /\ GuiReady
    /\ CanStart
    /\ pc = "idle"
    /\ StartWorker(Worker("links", "run", 0))
    /\ pc' = "load"
    /\ file0' = manifest_file
    /\ UNCHANGED <<manifest_file, links_data, cfg, isos_to_convert, packVars, callVars,
                   output_isos, converter_ok, attempted, succeeded, converted, raised,
                   events, prev_written, unsaved, run, resume_k, resume_next,
                   tempVars, convVars, libVars>>
    /\ UNCHANGED <<gui_pc, gui_data, converter_attr, stop_result>>

\* _process_links: process_links has returned or raised; the finally clause
\* ends the thread, and what the call held in memory is gone
LinksDone ==
    /\ pc \in {"complete", "raised"}
    /\ Running("links")
    /\ EndWorker("links")
    /\ pc' = "idle"
    /\ file0' = <<>>
    /\ links_data' = <<>>
    /\ isos_to_convert' = <<>>
    /\ remaining_links' = <<>>
    /\ total_size_mb' = 0
    /\ total_to_process' = 0
    /\ processed_count' = 0
    /\ current_batch_links' = <<>>
    /\ current_batch_size_mb' = 0
    /\ slice_i' = 0
    /\ batch' = <<>>
    /\ idx' = 1
    /\ ret' = "none"
    /\ handed' = <<>>
    /\ attempted' = {}
    /\ succeeded' = {}
    /\ converted' = {}
    /\ raised' = {}
    /\ events' = {}
    /\ prev_written' = 0
    /\ unsaved' = {}
    /\ cleanup_failed' = {}
    /\ UNCHANGED <<manifest_file, cfg, output_isos, converter_ok, run, resume_k,
                   resume_next, temp_files, extract_dirs, convVars, libVars>>
    /\ UNCHANGED <<gui_pc, gui_data, converter_attr, stop_result>>

\* the threads of _start_hdd_import, _merge_links_file, _generate_game_names
TaskKinds == {"hdd_import", "merge", "names"}

\* _start_hdd_import, _merge_links_file, _generate_game_names: each checks the
\* flag, sets it and starts its thread
StartTask ==
    /\ GuiReady
    /\ CanStart
    /\ \E kind \in TaskKinds : StartWorker(Worker(kind, "run", 0))
    /\ UNCHANGED <<manifest_file, restOfGui>>
    /\ UNCHANGED <<gui_pc, gui_data, converter_attr, stop_result>>

\* the finally clause of _process_hdd_import, _process_merge, _process_generate_names
TaskDone ==
    /\ \E kind \in TaskKinds :
          /\ Running(kind)
          /\ EndWorker(kind)
    /\ UNCHANGED <<manifest_file, restOfGui>>
    /\ UNCHANGED <<gui_pc, gui_data, converter_attr, stop_result>>

\* _start_conversion: the thread begins _run_conversion
StartConversion ==
    /\ GuiReady
    /\ CanStart
    /\ \E files \in 0..MaxIsoFiles : StartWorker(Worker("conversion", "construct", files))
    /\ UNCHANGED <<manifest_file, restOfGui>>
    /\ UNCHANGED <<gui_pc, gui_data, converter_attr, stop_result>>

\* the thread of _run_conversion moves to position at, with files left
ConversionAt(at, files) ==
    workers' = [workers EXCEPT ![FirstOfKind("conversion")] =
                   Worker("conversion", at, files)]

ConversionWorker == workers[FirstOfKind("conversion")]

\* _run_conversion: "self.converter = ISO2GODConverter()", which may raise,
\* then the list of ISO files
ConversionConstruct ==
    /\ Running("conversion")
    /\ ConversionWorker.at = "construct"
    /\ \E constructed \in BOOLEAN :
          IF constructed
          THEN /\ converter_attr' = TRUE
               /\ ConversionAt(IF ConversionWorker.files = 0 THEN "finally" ELSE "loop",
                               ConversionWorker.files)
          ELSE /\ converter_attr' = converter_attr
               /\ ConversionAt("finally", ConversionWorker.files)
    /\ UNCHANGED <<manifest_file, restOfGui>>
    /\ UNCHANGED <<processing, gui_pc, gui_data, stop_result>>

\* the head of "for i, (iso_name, iso_path) in enumerate(iso_files, 1)":
\* "if not self.processing: break", else convert_iso_to_god is called and
\* starts the subprocess
ConversionLoop ==
    /\ Running("conversion")
    /\ ConversionWorker.at = "loop"
    /\ IF ConversionWorker.files = 0 \/ ~processing
       THEN ConversionAt("finally", ConversionWorker.files)
       ELSE ConversionAt("converting", ConversionWorker.files)
    /\ UNCHANGED <<manifest_file, restOfGui>>
    /\ UNCHANGED <<processing, gui_pc, gui_data, converter_attr, stop_result>>

\* convert_iso_to_god returns or raises
ConversionFileDone ==
    /\ Running("conversion")
    /\ ConversionWorker.at = "converting"
    /\ \E returned \in BOOLEAN :
          ConversionAt(IF returned THEN "loop" ELSE "finally", ConversionWorker.files - 1)
    /\ UNCHANGED <<manifest_file, restOfGui>>
    /\ UNCHANGED <<processing, gui_pc, gui_data, converter_attr, stop_result>>

\* the finally clause of _run_conversion
ConversionDone ==
    /\ Running("conversion")
    /\ ConversionWorker.at = "finally"
    /\ EndWorker("conversion")
    /\ UNCHANGED <<manifest_file, restOfGui>>
    /\ UNCHANGED <<gui_pc, gui_data, converter_attr, stop_result>>

\* (variant: ISO2GODConverter with a stop method)
ConverterHasStopMethod == TRUE

\* ISO2GODConverter defines __init__, _find_iso2god, _should_update_status,
\* convert_iso_to_god, batch_convert and get_conversion_status
ConverterHasStop == FALSE

\* the subprocess of every conversion in progress is killed
KillConversions ==
    [i \in 1..Len(workers) |->
        IF workers[i].at = "converting"
        THEN Worker(workers[i].kind, "loop", workers[i].files - 1)
        ELSE workers[i]]

\* _stop_conversion: "if hasattr(self, 'converter'): self.converter.stop()";
\* the call of a method the object does not have raises AttributeError, which
\* ends the handler
StopConversion ==
    /\ GuiReady
    /\ IF ~converter_attr
       THEN /\ stop_result' = "no_converter"
            /\ UNCHANGED <<processing, workers>>
       ELSE IF ConverterHasStop
            THEN /\ stop_result' = "stopped"
                 /\ workers' = KillConversions
                 /\ processing' = FALSE
            ELSE /\ stop_result' = "attribute_error"
                 /\ UNCHANGED <<processing, workers>>
    /\ UNCHANGED <<manifest_file, restOfGui>>
    /\ UNCHANGED <<gui_pc, gui_data, converter_attr>>

\* _reset_library_status: "Reset status for each link"
ResetStatus(link) ==
    LET common == [link EXCEPT !.processed = FALSE, !.downloaded = FALSE,
                               !.extracted = FALSE, !.copied = FALSE,
                               !.output_path = FALSE]
    IN  IF link.link_type = "ISO"
        THEN [common EXCEPT !.god_converted = FALSE, !.god_output_path = FALSE,
                            !.god_conversion_error = FALSE,
                            !.god_conversion_started = FALSE,
                            !.god_conversion_completed = FALSE]
        ELSE common

\* _reset_library_status up to json.load: the .bak copy, then the read
ResetLoad ==
    /\ GuiReady
    /\ Readable(manifest_file)
    /\ backup_file' = manifest_file
    /\ gui_data' = manifest_file
    /\ gui_pc' = "reset"
    /\ UNCHANGED <<manifest_file, runVars, convVars>>
    /\ UNCHANGED <<lib_pc, lib_op, lib_data, lib_before, lib_report, lib_count>>
    /\ UNCHANGED <<processing, workers, converter_attr, stop_result>>

\* _reset_library_status from the loop on: reset every link, json.dump
ResetWrite ==
    /\ gui_pc = "reset"
    /\ manifest_file' = [i \in 1..Len(gui_data) |-> ResetStatus(gui_data[i])]
    /\ gui_pc' = "idle"
    /\ gui_data' = <<>>
    /\ UNCHANGED restOfGui
    /\ UNCHANGED <<processing, workers, converter_attr, stop_result>>

\* _save_game_changes: "Load current links.json"
SaveLoad ==
    /\ GuiReady
    /\ Readable(manifest_file)
    /\ gui_data' = manifest_file
    /\ gui_pc' = "save"
    /\ UNCHANGED <<manifest_file, restOfGui>>
    /\ UNCHANGED <<processing, workers, converter_attr, stop_result>>

\* _save_game_changes: a row of the game tree sets the enabled flag of the
\* game whose output_path ends in the row's name; json.dump
SaveWrite ==
    /\ gui_pc = "save"
    /\ \E checked \in [1..Len(gui_data) -> BOOLEAN] :
          manifest_file' = [i \in 1..Len(gui_data) |->
                               IF gui_data[i].output_path
                               THEN [gui_data[i] EXCEPT !.enabled = checked[i]]
                               ELSE gui_data[i]]
    /\ gui_pc' = "idle"
    /\ gui_data' = <<>>
    /\ UNCHANGED restOfGui
    /\ UNCHANGED <<processing, workers, converter_attr, stop_result>>

\* Initial states of the GUI specification: a links file of up to MaxGuiLinks
\* entries, pending or complete, and the application right after it started.
GuiManifests ==
    UNION {{[i \in 1..n |-> NewLink(i, "XBLA", TRUE, MainSizeMB(i), d[i])] :
                d \in [1..n -> BOOLEAN]} :
           n \in 1..MaxGuiLinks}

InitGui ==
    /\ manifest_file \in GuiManifests
    /\ PipelineIdle
    /\ ConverterIdle
    /\ LibraryIdle
    /\ GuiIdle

NextGui ==
    \/ StartProcessing
    \/ Load
    \/ Filter
    \/ SliceLoop
    \/ BatchReturn
    \/ EntryBegin
    \/ Extract
    \/ Copy
    \/ Save
    \/ Cleanup
    \/ LinksDone
    \/ StartTask
    \/ TaskDone
    \/ StartConversion
    \/ ConversionConstruct
    \/ ConversionLoop
    \/ ConversionFileDone
    \/ ConversionDone
    \/ StopConversion
    \/ ResetLoad
    \/ ResetWrite
    \/ SaveLoad
    \/ SaveWrite

SpecGui == InitGui /\ [][NextGui]_vars

---------------------------------------------------------------------------
(* Errors of the whole run *)

\* the run is behind the load, the sweep and the filter
Planned == pc \notin {"load", "sweep", "filter"}

---------------------------------------------------------------------------
(* The GUI and the background threads *)

\* C22: while the thread of a processing run is running, a step that changes
\* the links file is a step of that thread, never the write of a handler of
\* the GUI thread.
C22_OnlyRunWritesManifest ==
    [][(Running("links") /\ manifest_file' # manifest_file) => gui_pc' = gui_pc]_vars

Converting == \E i \in 1..Len(workers) : workers[i].at = "converting"

\* C27: a call of _stop_conversion made while a conversion is in progress
\* ends that conversion: behind it no conversion is in progress and the
\* flag is cleared.
C27_StopEndsConversion ==
    [][(Converting /\ stop_result' # stop_result) => (~Converting' /\ ~processing')]_vars

---------------------------------------------------------------------------
(* Order and status events of a run *)

\* position of url u in the sequence of urls s, 0 if it is not there
PosIn(s, u) ==
    IF \E i \in 1..Len(s) : s[i] = u
    THEN CHOOSE i \in 1..Len(s) : s[i] = u /\ \A j \in 1..(i - 1) : s[j] # u
    ELSE 0

\* the entries handed to _process_batch so far follow the order of the manifest
InManifestOrder ==
    LET done == Flatten(handed)
        urls == UrlSeq(file0)
    IN  \A i \in 1..(Len(done) - 1) : PosIn(urls, done[i]) < PosIn(urls, done[i + 1])

\* C24 as stated: in both batch modes the entries are handed to
\* _process_batch, and so processed, in the order they have in the manifest.
C24_ManifestOrder == InManifestOrder

\* C24 amended: By Number, the entries are processed in the order they have
\* in the manifest, batch by batch.
C24_ManifestOrderByNumber == ByNumber => InManifestOrder

\* By Number, a filtered run of several slices is over
C24_Witness ==
    /\ ByNumber
    /\ pc = "complete"
    /\ Len(handed) >= 2
    /\ cfg.filter_type # "All"
    /\ Len(Flatten(handed)) > SliceLen

\* a status event that refers to the entry with url u has been put
HasEvent(u) == \E e \in events : e[2] = u

\* C25: when the run is over, every entry of the filtered list that was not
\* processed has a status event that refers to it.
C25_NoSilentDrop ==
    pc = "complete" => \A u \in Urls(links_data) : u \in succeeded \/ HasEvent(u)

---------------------------------------------------------------------------
(* The links file during a run *)

\* the entries of the list in memory that the links file shows otherwise
Differing ==
    {u \in Urls(links_data) :
        \/ u \notin Urls(manifest_file)
        \/ LinkOf(manifest_file, u) # LinkOf(links_data, u)}

\* C26: at every instant of a run, and so whenever the process is killed, the
\* links file holds a complete manifest, and it differs from the list in
\* memory in the result of at most one entry.
C26_FileValidAtEveryInstant ==
    pc \notin {"load", "filter"} =>
        /\ Readable(manifest_file)
        /\ Cardinality(Differing) <= 1

---------------------------------------------------------------------------
(* GOD conversion in a run *)

GodFields == {"god_converted", "god_conversion_started", "god_conversion_completed",
              "god_conversion_error", "god_output_path"}

\* the entry with url u shows in data the god_* fields it had when the run began
GodFieldsKept(data, u) ==
    u \in Urls(data) => \A f \in GodFields : LinkOf(data, u)[f] = LinkOf(file0, u)[f]

\* C28: the converter is called only in a run that asks for conversion and
\* only for ISO entries, and the god_* fields of every other entry stay as
\* they were, in memory and in the links file.
C28_OnlyIsoConverted ==
    /\ converted # {} => cfg.convert_god
    /\ converted \subseteq IsoUrls(file0)
    /\ \A u \in Urls(file0) \ IsoUrls(file0) :
          GodFieldsKept(links_data, u) /\ GodFieldsKept(manifest_file, u)

\* the ISOs that Load marked for conversion
Marked == {e[2] : e \in {x \in events : x[1] = "marked"}}

\* C29: the step that starts the first download of a run is taken when every
\* ISO marked for conversion has been passed to the converter, none is left
\* to convert, and the links file holds every entry as the sweep left it.
C29_SweepBeforeDownloads ==
    [][(attempted = {} /\ attempted' # {})
          => /\ isos_to_convert = <<>>
             /\ Marked \subseteq converted
             /\ cfg.convert_god => \A u \in IsoUrls(file0) \cap output_isos :
                                       NeedsConversion(LinkOf(file0, u)) => u \in Marked
             /\ manifest_file = links_data]_vars

\* two ISOs were in the output folder, both were converted in the sweep and
\* written, and a download has started
C29_Witness ==
    /\ Cardinality(Marked) = 2
    /\ converted = Marked
    /\ attempted # {}
    /\ \E i \in 1..Len(manifest_file) : manifest_file[i].god_conversion_completed
    /\ \E i \in 1..Len(manifest_file) : manifest_file[i].god_conversion_error

---------------------------------------------------------------------------
(* Temporary files of a batch *)

\* the entries whose download returned a file
Downloaded == {u \in attempted : <<"download_failed", u>> \notin events}

\* C30: when the loop of a batch stands before its next entry, no entry whose
\* download returned a file has its download or its extraction directory
\* left in the temporary folders, unless the removal itself failed; a failed
\* removal is reported by a status event and the loop goes on.
C30_TempFilesDeleted ==
    pc = "entry" =>
       /\ \A u \in Downloaded :
             u \in (temp_files \cup extract_dirs) => u \in cleanup_failed
       /\ \A u \in cleanup_failed : <<"error", u>> \in events

---------------------------------------------------------------------------
(* The plan of a run: what is handed to _process_batch *)

\* the urls handed to _process_batch so far, batch after batch
HandedUrls == Flatten(handed)

\* C31: no entry is handed to _process_batch twice in one run: no url occurs
\* twice in the batches handed over so far.
C31_HandedAtMostOnce ==
    \A i, j \in 1..Len(HandedUrls) : i # j => HandedUrls[i] # HandedUrls[j]

\* C32: By Size, when every entry of the filtered list is at most the bin
\* capacity and the sizes add up to at most the total cap, every entry of the
\* filtered list has been placed in a batch when the run is over.
C32_AllPlaced ==
    (/\ BySize
     /\ pc = "complete"
     /\ \A u \in Urls(links_data) : SizeMB(links_data, u) <= BinCapacityMB
     /\ SumOver(links_data, Urls(links_data)) <= cfg.batch_size)
        => Urls(links_data) \subseteq Range(HandedUrls)

\* the test of the outer loop of the By Size packer holds
InPackLoop == pc = "pack" /\ remaining_links # <<>> /\ processed_count < total_size_mb

\* C33: the By Size planning loop comes to an end, and every pass of its outer
\* loop takes at least one entry off remaining_links: either in the pass
\* itself or, when the pass hands over the batch that nothing fits, in the
\* statements behind that call.
C33_PackTerminates ==
    /\ <>(pc \in {"complete", "raised"})
    /\ [][/\ InPackLoop => \/ Len(remaining_links') < Len(remaining_links)
                           \/ pc' = "entry" /\ ret' = "nofit"
          /\ (pc = "entry" /\ ret = "nofit" /\ pc' = "pack")
                 => Len(remaining_links') < Len(remaining_links)]_vars

\* the loop ended on a list with an entry of unknown size and one above the
\* bin capacity, after several batches
C33_Witness ==
    /\ BySize
    /\ pc = "complete"
    /\ remaining_links = <<>>
    /\ Len(handed) >= 2
    /\ \E u \in Urls(links_data) : SizeMB(links_data, u) = 0
    /\ \E u \in Urls(links_data) : SizeMB(links_data, u) > BinCapacityMB

---------------------------------------------------------------------------
(* Conversion across runs *)

\* the ISO entries a run's batch processing converted with success
BatchConverted == {e[2] : e \in {x \in events : x[1] = "god_converted"}}

\* C34: when a second run with conversion enabled loads the links file, it
\* does not mark for conversion an ISO that the batch processing of the first
\* run converted with success, whose entry was written with that result and
\* whose ISO file is still in the output directory.
C34_NoSecondConversion ==
    [][(run = 2 /\ pc = "load" /\ cfg.convert_god)
          => \A u \in BatchConverted \cap output_isos :
                 LinkOf(manifest_file, u).god_converted
                     => \A i \in 1..Len(isos_to_convert') : isos_to_convert'[i] # u]_vars

\* the sweep has recorded a success for the ISO at the head of its list
SweepSucceeded ==
    LET k == FirstNamed(links_data, LinkOf(links_data, Head(isos_to_convert)).name)
    IN  links_data'[k].god_conversion_completed /\ ~links_data'[k].god_conversion_error

\* C35: an ISO file leaves the output directory only in a step of a run with
\* delete_iso in which the converter was called for that ISO and returned
\* success, in the sweep or in the batch; so none is deleted after a failed or
\* skipped conversion, and none without delete_iso.
C35_DeleteOnlyAfterSuccess ==
    [][\A u \in output_isos \ output_isos' :
          /\ cfg.delete_iso
          /\ u \in converted'
          /\ \/ pc = "convert" /\ u = Cur /\ <<"god_converted", u>> \in events'
             \/ pc = "sweep" /\ u = Head(isos_to_convert) /\ SweepSucceeded]_vars

\* with delete_iso, a run is over in which the sweep converted one ISO and
\* deleted it and the batch converted another and deleted it
C35_Witness ==
    /\ cfg.delete_iso
    /\ pc = "complete"
    /\ \E u \in converted : u \notin output_isos /\ <<"marked", u>> \in events
    /\ \E u \in converted : u \notin output_isos /\ <<"god_converted", u>> \in events
                               /\ <<"marked", u>> \notin events

---------------------------------------------------------------------------
(* The completion flags *)

FlagsEqual(link) ==
    /\ link.downloaded = link.extracted
    /\ link.extracted = link.copied
    /\ link.copied = link.processed

\* C36: when downloaded, extracted, copied and processed are equal in every
\* entry of the links file before the run, they are equal in every entry of
\* the file whenever the run has written it, and an entry whose copied flag
\* the run has set has an output_path.
C36_FlagsSetTogether ==
    (\A i \in 1..Len(file0) : FlagsEqual(file0[i]))
        => \A i \in 1..Len(manifest_file) :
              /\ FlagsEqual(manifest_file[i])
              /\ (manifest_file[i].copied /\ ~LinkOf(file0, manifest_file[i].url).copied)
                     => manifest_file[i].output_path

\* the run has written the file with one entry complete, after another entry
\* failed in a later stage than its download
C36_Witness ==
    /\ manifest_file # file0
    /\ \E i \in 1..Len(manifest_file) : manifest_file[i].copied
    /\ \E u \in attempted \ succeeded :
          /\ <<"download_failed", u>> \notin events
          /\ ~LinkOf(manifest_file, u).downloaded

---------------------------------------------------------------------------
(* The success event *)

\* the entries whose "Successfully processed" event is put in this step
NewSuccess == {e[2] : e \in {x \in events' \ events : x[1] = "success"}}

\* C37: when the "Successfully processed" event of an entry is put, the links
\* file has been written and shows the entry with downloaded, extracted and
\* copied set; no such event is put for an entry the file shows otherwise.
C37_SuccessAfterWrite ==
    [][\A u \in NewSuccess :
          /\ u \in Urls(manifest_file')
          /\ LinkOf(manifest_file', u).downloaded
          /\ LinkOf(manifest_file', u).extracted
          /\ LinkOf(manifest_file', u).copied]_vars

\* one entry has its success event, and the write for another entry, copied
\* as well, has raised: it has none
C37_Witness ==
    /\ \E u \in succeeded : <<"success", u>> \in events
    /\ \E u \in succeeded \cap raised :
          <<"success", u>> \notin events /\ ~LinkOf(manifest_file, u).copied

---------------------------------------------------------------------------
(* The pipes of the subprocess *)

\* the adapter is inside readline() of one pipe with nothing to return while
\* the subprocess is inside a write to the other pipe, which is full
PipeDeadlock ==
    \/ /\ conv_pc = "read_out"
       /\ ~CanRead(process.stdout, process.stdout_eof)
       /\ process.state = "blocked_err"
    \/ /\ conv_pc = "read_err"
       /\ ~CanRead(process.stderr, process.stderr_eof)
       /\ process.state = "blocked_out"

\* C38: the adapter never waits in readline() on one pipe while the
\* subprocess is blocked in a write to the other pipe.
C38_NoPipeDeadlock == ~PipeDeadlock

---------------------------------------------------------------------------
(* What the manifest operations leave of the file *)

\* link b has every field of link a, with the same value
KeepsFields(a, b) ==
    \A f \in DOMAIN a : f \in DOMAIN b /\ b[f] = a[f]

\* C39: when a fix-up of missing fields is over, the links file has as many
\* entries as it had when the fix-up began, and every entry has all the
\* fields it had, with the values they had.
C39_FixOnlyAdds ==
    (lib_pc = "idle" /\ lib_op.name = "fix_links_issues")
        => /\ Len(manifest_file) = Len(lib_before)
           /\ \A i \in 1..Len(manifest_file) : KeepsFields(lib_before[i], manifest_file[i])

\* C40: when merge_links_files or import_links_json has raised because a file
\* is missing, a top-level value is not a list, or an element is no object or
\* has no url (any failure but one of the write itself), the links file is as
\* it was before the call and the error status has been put.
C40_FailureLeavesFile ==
    (/\ lib_report.name \in {"merge_links_files", "import_links_json"}
     /\ lib_report.raised
     /\ lib_report.cause # "write")
        => /\ manifest_file = lib_before
           /\ lib_report.status = "error"

\* a merge has raised on an element without url, behind its backup
C40_Witness ==
    /\ lib_report.name = "merge_links_files"
    /\ lib_report.raised
    /\ lib_report.cause = "invalid_link"
    /\ IsList(manifest_file)
    /\ manifest_file # <<>>
    /\ backup_file = manifest_file

====
